---------------------------- MODULE Spec2Model ----------------------------
(***************************************************************************)
(* Offline reverse geocoder (tn3w/genom): the build-time downloads,        *)
(* postal merge, de-duplication, string interner, grid builder and binary  *)
(* encoder of build/builder.rs, and the run-time loader, once-initialised  *)
(* global and nearest-place query of src/database.rs and src/types.rs.     *)
(*                                                                         *)
(* Representation of numbers.  Stored coordinates are the program's i32    *)
(* fixed-point values (degrees * 100000).  An f64 number of degrees is     *)
(* represented by the integer  degrees * DegScale,  DegScale = 2 * 100000, *)
(* so a query can lie half a fixed-point unit between two stored values.   *)
(* Strings are sequences of bytes (their UTF-8 encoding).                  *)
(***************************************************************************)
EXTENDS Integers, Sequences, FiniteSets, TLC

VARIABLES
    DATA,        \* the embedded artifact: static DATA: &[u8]
    decodable,   \* whether load_database accepts DATA (fixed with DATA)
    GEOCODER,    \* static GEOCODER: OnceLock<Geocoder>
    pc,          \* per caller thread: position inside lookup()
    query,       \* per caller thread: the Location being looked up
    found,       \* per caller thread: what find_nearest returned
    result,      \* per caller thread: what lookup returned
    failure,     \* per caller thread: the panic payload, if it panicked
    observed,    \* per caller thread: the instance Geocoder::global() gave it
    constructed, \* number of calls of Geocoder::new that returned Ok
    stage,       \* position of the builder / codec / interner run
    input,       \* the places handed to intern_strings
    strings,     \* builder: the string table
    string_map,  \* builder: FxHashMap<String, u32> of intern_string
    places,      \* builder: Vec<CompactPlace>
    grid,        \* builder: FxHashMap<(i16, i16), Vec<u32>>
    out,         \* builder: the bytes written to the output file
    loaded,      \* result of load_database on the bytes read back
    log,         \* interner: one entry per intern_string call
    source,      \* what each country's place and postal download yields
    worker,      \* per country: position of its scoped download thread
    temp_places, \* builder: the Vec<TempPlace> before interning
    codes        \* builder: the shared Vec<PostalCode>

vars == << DATA, decodable, GEOCODER, pc, query, found, result, failure, observed,
           constructed, stage, input, strings, string_map, places, grid,
           out, loaded, log, source, worker, temp_places, codes >>

runtimeVars == << DATA, decodable, GEOCODER, pc, query, found, result, failure,
                  observed, constructed >>

builderVars == << stage, input, strings, string_map, places, grid, out,
                  loaded, log >>

pipelineVars == << source, worker, temp_places, codes >>

(***************************************************************************)
(* Bounds of the model.                                                    *)
(***************************************************************************)
MaxPlaces == 2      \* records in a database
NumThreads == 2     \* concurrent callers of lookup()
MaxInterns == 4     \* intern_string calls in one interner run
MaxLength == 130    \* string lengths 0..MaxLength, besides the large ones

(***************************************************************************)
(* Program constants.                                                      *)
(***************************************************************************)
CoordScale == 100000   \* degrees -> fixed point
CellSize == 10000      \* fixed-point units per grid cell

DegScale == 2 * CoordScale

\* (-1..=1): the cell offsets of a nine-cell scan, in iteration order.
Offsets == << -1, 0, 1 >>

None == [some |-> FALSE]
Some(v) == [some |-> TRUE, val |-> v]

Min(a, b) == IF a <= b THEN a ELSE b

(***************************************************************************)
(* Rust integer arithmetic.                                                *)
(***************************************************************************)
\* i32 / i32: the quotient is truncated toward zero.
TruncDiv(a, b) == IF a >= 0 THEN a \div b ELSE -((-a) \div b)

\* `as i16` of an i32: the low 16 bits, read as two's complement.
AsI16(x) == ((x + 32768) % 65536) - 32768

\* Units of the f64 representation per fixed-point unit.
HalfUnits == DegScale \div CoordScale

\* Plausible slip: the scale factor 10000.0 instead of 100000.0, the stored
\* value then being padded to the fixed-point scale.
ToFixedCoarse(x) == TruncDiv(x, 10 * HalfUnits) * 10

\* `(x * 100000.0) as i32` of an f64 number of degrees x: the product is
\* x's representation divided by HalfUnits, and the cast drops the fraction
\* (toward zero).
ToFixed(x) == TruncDiv(x, HalfUnits)

\* `v as f64 / 100000.0` of a fixed-point value v.
ToDegrees(v) == v * HalfUnits

\* to_le_bytes of an n-byte integer; a negative value gives its two's
\* complement because \div floors and % is never negative.
RECURSIVE to_le_bytes(_, _)
to_le_bytes(v, n) ==
    IF n = 0 THEN << >>
    ELSE << v % 256 >> \o to_le_bytes(v \div 256, n - 1)

\* uN::from_le_bytes
RECURSIVE from_le_bytes(_)
from_le_bytes(b) ==
    IF Len(b) = 0 THEN 0
    ELSE b[1] + 256 * from_le_bytes(Tail(b))

\* iN::from_le_bytes: the top byte carries the sign.
RECURSIVE from_le_bytes_signed(_)
from_le_bytes_signed(b) ==
    IF Len(b) = 1 THEN (IF b[1] >= 128 THEN b[1] - 256 ELSE b[1])
    ELSE b[1] + 256 * from_le_bytes_signed(Tail(b))


(***************************************************************************)
(* build/builder.rs: string interning.                                     *)
(***************************************************************************)
EmptyMap == << >>

MapInsert(m, k, v) ==
    [x \in (DOMAIN m) \cup {k} |-> IF x = k THEN v ELSE m[x]]

\* Plausible slip: the table is searched for the value, but the index handed
\* back on a hit is the current table length instead of the stored one.
intern_string_stale(s, map, strs) ==
    IF s \in DOMAIN map
    THEN [idx |-> Len(strs), map |-> map, strings |-> strs]
    ELSE [idx |-> Len(strs),
          map |-> MapInsert(map, s, Len(strs)),
          strings |-> Append(strs, s)]

\* Plausible slip: the value is pushed on every call, also when the map
\* already holds it (insert instead of entry().or_insert_with()).
intern_string_push(s, map, strs) ==
    [idx |-> Len(strs),
     map |-> MapInsert(map, s, Len(strs)),
     strings |-> Append(strs, s)]

\* map.entry(s).or_insert_with(|| { idx = strings.len(); strings.push(s); idx })
intern_string(s, map, strs) ==
    IF s \in DOMAIN map
    THEN [idx |-> map[s], map |-> map, strings |-> strs]
    ELSE [idx |-> Len(strs),
          map |-> MapInsert(map, s, Len(strs)),
          strings |-> Append(strs, s)]

\* The seven text fields of a place, in the order the closure interns them.
FieldOrder ==
    << "city", "region", "region_code", "district", "country_code",
       "postal_code", "timezone" >>

\* Interns fields k..7 of place p; acc carries map, strings and the indices.
RECURSIVE InternFields(_, _, _)
InternFields(p, k, acc) ==
    IF k > Len(FieldOrder) THEN acc
    ELSE LET r == intern_string(p[FieldOrder[k]], acc.map, acc.strings)
         IN  InternFields(p, k + 1,
                 [map |-> r.map, strings |-> r.strings,
                  idx |-> Append(acc.idx, r.idx)])

RECURSIVE InternPlaces(_, _, _)
InternPlaces(ps, i, acc) ==
    IF i > Len(ps) THEN acc
    ELSE LET f == InternFields(ps[i], 1,
                      [map |-> acc.map, strings |-> acc.strings, idx |-> << >>])
             c == [city |-> f.idx[1], region |-> f.idx[2],
                   region_code |-> f.idx[3], district |-> f.idx[4],
                   country_code |-> f.idx[5], postal_code |-> f.idx[6],
                   timezone |-> f.idx[7],
                   lat |-> ps[i].lat, lon |-> ps[i].lon]
         IN  InternPlaces(ps, i + 1,
                 [map |-> f.map, strings |-> f.strings,
                  places |-> Append(acc.places, c)])

\* Builder::intern_strings: (strings, compact_places), and the map it used.
intern_strings(ps) ==
    InternPlaces(ps, 1, [map |-> EmptyMap, strings |-> << >>, places |-> << >>])

(***************************************************************************)
(* build/builder.rs: the grid index.                                       *)
(***************************************************************************)
\* ((place.lat / 10000) as i16, (place.lon / 10000) as i16)
CellOf(lat, lon) ==
    << AsI16(TruncDiv(lat, CellSize)), AsI16(TruncDiv(lon, CellSize)) >>

\* Plausible slip: the cell's list is replaced instead of extended
\* (grid.insert(key, vec![idx])).
GridPushReplace(g, key, idx) ==
    MapInsert(g, key, << idx >>)

\* grid.entry(key).or_default().push(idx)
GridPush(g, key, idx) ==
    IF key \in DOMAIN g
    THEN [g EXCEPT ![key] = Append(@, idx)]
    ELSE MapInsert(g, key, << idx >>)

\* Plausible slip: the record IDs are counted from one.
RECURSIVE BuildGridFromOne(_, _, _)
BuildGridFromOne(cps, i, g) ==
    IF i > Len(cps) THEN g
    ELSE BuildGridFromOne(cps, i + 1,
             GridPush(g, CellOf(cps[i].lat, cps[i].lon), i))

RECURSIVE BuildGridFrom(_, _, _)
BuildGridFrom(cps, i, g) ==
    IF i > Len(cps) THEN g
    ELSE BuildGridFrom(cps, i + 1,
             GridPush(g, CellOf(cps[i].lat, cps[i].lon), i - 1))

\* Builder::build_grid: record IDs are 0-based positions in the array.
build_grid(cps) == BuildGridFrom(cps, 1, EmptyMap)

(***************************************************************************)
(* build/builder.rs: serialization (the tail of Builder::build).           *)
(***************************************************************************)
\* Plausible slip: the value is shifted by a whole byte (value >>= 8).
RECURSIVE write_varint_shift8(_)
write_varint_shift8(value) ==
    LET low == value % 128
        rest == value \div 256
    IN  IF rest # 0 THEN << low + 128 >> \o write_varint_shift8(rest)
        ELSE << low >>

\* write_varint: the low seven bits of the value, with the high bit set
\* while a non-zero rest is left, then the same for the rest.
RECURSIVE write_varint(_)
write_varint(value) ==
    LET low == value % 128
        rest == value \div 128
    IN  IF rest # 0 THEN << low + 128 >> \o write_varint(rest)
        ELSE << low >>

RECURSIVE WriteStrings(_, _)
WriteStrings(strs, i) ==
    IF i > Len(strs) THEN << >>
    ELSE write_varint(Len(strs[i])) \o strs[i] \o WriteStrings(strs, i + 1)

\* Plausible slip: region and region_code written in the opposite order.
WritePlaceSwapped(c) ==
    to_le_bytes(c.city, 4) \o to_le_bytes(c.region_code, 4)
    \o to_le_bytes(c.region, 4) \o to_le_bytes(c.district, 4)
    \o to_le_bytes(c.country_code, 4) \o to_le_bytes(c.postal_code, 4)
    \o to_le_bytes(c.timezone, 4) \o to_le_bytes(c.lat, 4)
    \o to_le_bytes(c.lon, 4)

WritePlace(c) ==
    to_le_bytes(c.city, 4) \o to_le_bytes(c.region, 4)
    \o to_le_bytes(c.region_code, 4) \o to_le_bytes(c.district, 4)
    \o to_le_bytes(c.country_code, 4) \o to_le_bytes(c.postal_code, 4)
    \o to_le_bytes(c.timezone, 4) \o to_le_bytes(c.lat, 4)
    \o to_le_bytes(c.lon, 4)

RECURSIVE WritePlaces(_, _)
WritePlaces(cps, i) ==
    IF i > Len(cps) THEN << >>
    ELSE WritePlace(cps[i]) \o WritePlaces(cps, i + 1)

RECURSIVE WriteIds(_, _)
WriteIds(ids, i) ==
    IF i > Len(ids) THEN << >>
    ELSE to_le_bytes(ids[i], 4) \o WriteIds(ids, i + 1)

WriteCell(key, ids) ==
    to_le_bytes(key[1], 2) \o to_le_bytes(key[2], 2)
    \o to_le_bytes(Len(ids), 8) \o WriteIds(ids, 1)

\* `for ((lat, lon), indices) in &grid`: order is the sequence in which the
\* hash map yields its entries.
RECURSIVE WriteCells(_, _, _)
WriteCells(g, order, i) ==
    IF i > Len(order) THEN << >>
    ELSE WriteCell(order[i], g[order[i]]) \o WriteCells(g, order, i + 1)

\* The orders in which a hash map with key set S can yield its entries.
IterOrders(S) ==
    { o \in [1..Cardinality(S) -> S] :
        \A i, j \in 1..Cardinality(S) : i # j => o[i] # o[j] }

\* One fixed iteration order of S.
RECURSIVE SomeOrder(_)
SomeOrder(S) ==
    IF S = {} THEN << >>
    ELSE LET k == CHOOSE x \in S : TRUE
         IN  << k >> \o SomeOrder(S \ {k})

Serialize(strs, cps, g, order) ==
    to_le_bytes(Len(strs), 8) \o WriteStrings(strs, 1)
    \o to_le_bytes(Len(cps), 8) \o WritePlaces(cps, 1)
    \o to_le_bytes(Cardinality(DOMAIN g), 8) \o WriteCells(g, order, 1)


(***************************************************************************)
(* src/database.rs: decoding the artifact.  A cursor is the pair           *)
(* (data, pos); every reader returns the position after what it consumed.  *)
(***************************************************************************)
Ok(v, p) == [ok |-> TRUE, val |-> v, pos |-> p]
Err(e) == [ok |-> FALSE, err |-> e]

\* Plausible slip: `read` in place of `read_exact`; a short read leaves the
\* rest of the zero-initialised buffer untouched and is not reported.
read_short(data, pos, n) ==
    Ok([i \in 1..n |-> IF pos + i <= Len(data) THEN data[pos + i] ELSE 0],
       Min(pos + n, Len(data)))

\* cursor.read_exact(&mut buf) with buf of n bytes
read_exact(data, pos, n) ==
    IF pos + n <= Len(data)
    THEN Ok(SubSeq(data, pos + 1, pos + n), pos + n)
    ELSE Err("UnexpectedEof")

\* Geocoder::read_varint: 7 bits per byte, least significant group first,
\* high bit set on every byte but the last.
RECURSIVE read_varint(_, _)
read_varint(data, pos) ==
    LET b == read_exact(data, pos, 1)
    IN  IF ~b.ok THEN b
        ELSE IF b.val[1] < 128 THEN Ok(b.val[1], b.pos)
        ELSE LET r == read_varint(data, b.pos)
             IN  IF ~r.ok THEN r
                 ELSE Ok((b.val[1] - 128) + 128 * r.val, r.pos)

\* Length of the UTF-8 sequence a lead byte announces (0: not a lead byte).
Utf8Width(b) ==
    IF b < 128 THEN 1
    ELSE IF b >= 194 /\ b <= 223 THEN 2
    ELSE IF b >= 224 /\ b <= 239 THEN 3
    ELSE IF b >= 240 /\ b <= 244 THEN 4
    ELSE 0

\* Range allowed for the byte that follows lead byte b.
Utf8SecondOk(b, c) ==
    IF b = 224 THEN c >= 160 /\ c <= 191
    ELSE IF b = 237 THEN c >= 128 /\ c <= 159
    ELSE IF b = 240 THEN c >= 144 /\ c <= 191
    ELSE IF b = 244 THEN c >= 128 /\ c <= 143
    ELSE c >= 128 /\ c <= 191

\* String::from_utf8(buf).is_ok()
RECURSIVE Utf8Valid(_, _)
Utf8Valid(b, i) ==
    IF i > Len(b) THEN TRUE
    ELSE LET w == Utf8Width(b[i])
         IN  /\ w # 0
             /\ i + w - 1 <= Len(b)
             /\ w >= 2 => Utf8SecondOk(b[i], b[i + 1])
             /\ \A k \in (i + 2)..(i + w - 1) : b[k] >= 128 /\ b[k] <= 191
             /\ Utf8Valid(b, i + w)

\* for _ in 0..str_count { read_varint; read_exact; from_utf8; push }
RECURSIVE ReadStrings(_, _, _, _)
ReadStrings(data, pos, n, acc) ==
    IF n = 0 THEN Ok(acc, pos)
    ELSE LET l == read_varint(data, pos)
         IN  IF ~l.ok THEN l
             ELSE LET b == read_exact(data, l.pos, l.val)
                  IN  IF ~b.ok THEN b
                      ELSE IF ~Utf8Valid(b.val, 1) THEN Err("FromUtf8Error")
                      ELSE ReadStrings(data, b.pos, n - 1, Append(acc, b.val))

\* k successive `cursor.read_exact(&mut buf4)?`, keeping each buffer.
RECURSIVE ReadWords(_, _, _, _)
ReadWords(data, pos, k, acc) ==
    IF k = 0 THEN Ok(acc, pos)
    ELSE LET b == read_exact(data, pos, 4)
         IN  IF ~b.ok THEN b
             ELSE ReadWords(data, b.pos, k - 1, Append(acc, b.val))

\* One record: seven u32 string indices, then lat and lon as i32.
ReadPlace(data, pos) ==
    LET w == ReadWords(data, pos, 9, << >>)
    IN  IF ~w.ok THEN w
        ELSE Ok([city |-> from_le_bytes(w.val[1]),
                 region |-> from_le_bytes(w.val[2]),
                 region_code |-> from_le_bytes(w.val[3]),
                 district |-> from_le_bytes(w.val[4]),
                 country_code |-> from_le_bytes(w.val[5]),
                 postal_code |-> from_le_bytes(w.val[6]),
                 timezone |-> from_le_bytes(w.val[7]),
                 lat |-> from_le_bytes_signed(w.val[8]),
                 lon |-> from_le_bytes_signed(w.val[9])], w.pos)

RECURSIVE ReadPlaces(_, _, _, _)
ReadPlaces(data, pos, n, acc) ==
    IF n = 0 THEN Ok(acc, pos)
    ELSE LET r == ReadPlace(data, pos)
         IN  IF ~r.ok THEN r
             ELSE ReadPlaces(data, r.pos, n - 1, Append(acc, r.val))

\* for _ in 0..vec_len { read_exact(buf4); indices.push(u32) }
RECURSIVE ReadIds(_, _, _, _)
ReadIds(data, pos, n, acc) ==
    IF n = 0 THEN Ok(acc, pos)
    ELSE LET b == read_exact(data, pos, 4)
         IN  IF ~b.ok THEN b
             ELSE ReadIds(data, b.pos, n - 1, Append(acc, from_le_bytes(b.val)))

\* for _ in 0..grid_count { key_lat; key_lon; vec_len; ids; grid.insert }
RECURSIVE ReadCells(_, _, _, _)
ReadCells(data, pos, n, g) ==
    IF n = 0 THEN Ok(g, pos)
    ELSE LET a == read_exact(data, pos, 2)
         IN  IF ~a.ok THEN a
             ELSE LET b == read_exact(data, a.pos, 2)
             IN  IF ~b.ok THEN b
             ELSE LET c == read_exact(data, b.pos, 8)
             IN  IF ~c.ok THEN c
             ELSE LET ids == ReadIds(data, c.pos, from_le_bytes(c.val), << >>)
             IN  IF ~ids.ok THEN ids
             ELSE ReadCells(data, ids.pos, n - 1,
                      MapInsert(g, << from_le_bytes_signed(a.val),
                                      from_le_bytes_signed(b.val) >>, ids.val))

\* Geocoder::load_database.  Bytes after the last cell are not looked at.
load_database(data) ==
    LET sc == read_exact(data, 0, 8)
    IN  IF ~sc.ok THEN sc
    ELSE LET ss == ReadStrings(data, sc.pos, from_le_bytes(sc.val), << >>)
    IN  IF ~ss.ok THEN ss
    ELSE LET pn == read_exact(data, ss.pos, 8)
    IN  IF ~pn.ok THEN pn
    ELSE LET ps == ReadPlaces(data, pn.pos, from_le_bytes(pn.val), << >>)
    IN  IF ~ps.ok THEN ps
    ELSE LET gn == read_exact(data, ps.pos, 8)
    IN  IF ~gn.ok THEN gn
    ELSE LET gs == ReadCells(data, gn.pos, from_le_bytes(gn.val), EmptyMap)
    IN  IF ~gs.ok THEN gs
    ELSE Ok([strings |-> ss.val, places |-> ps.val, grid |-> gs.val], gs.pos)


(***************************************************************************)
(* Inputs of the model.  Text is given as UTF-8 bytes.                     *)
(***************************************************************************)
sEmpty == << >>
sFR == << 70, 82 >>                       \* "FR"
sDE == << 68, 69 >>                       \* "DE"
sParis == << 80, 97, 114, 105, 115 >>     \* "Paris"
sOrly == << 79, 114, 108, 121 >>          \* "Orly"
sY == << 89 >>                            \* "Y"
sIle == << 195, 142, 108, 101 >>          \* "Ile" with I-circumflex (2 bytes)
sKehl == << 75, 101, 104, 108 >>          \* "Kehl"
sIDF == << 73, 68, 70 >>                  \* "IDF"
s75 == << 55, 53 >>                       \* "75"
sCET == << 67, 69, 84 >>                  \* "CET"

TempPlace(city, region, code, district, country, postal, tz, lat, lon) ==
    [city |-> city, region |-> region, region_code |-> code,
     district |-> district, country_code |-> country, postal_code |-> postal,
     timezone |-> tz, lat |-> lat, lon |-> lon]

\* The places the model draws from.  Coordinates are fixed point; with
\* CellSize = 10000 they lie in grid cells -2, 0 on the latitude axis and
\* -1, 0, 1 on the longitude axis, on both sides of zero, and no two of them
\* share a de-duplication cell.
PlaceA == TempPlace(sParis, sIDF, s75, sEmpty, sFR, s75, sCET, -20000, 0)
PlaceB == TempPlace(sOrly, sIDF, s75, sOrly, sFR, sEmpty, sCET, 2000, 0)
PlaceC == TempPlace(sY, sEmpty, sEmpty, sEmpty, sFR, sEmpty, sCET, 0, 5000)
PlaceD == TempPlace(sIle, sIDF, sIDF, sIle, sFR, s75, sCET, 0, -5000)
PlaceE == TempPlace(sParis, sEmpty, sEmpty, sEmpty, sFR, s75, sCET, 0, 10000)
PlaceF == TempPlace(sKehl, sEmpty, sDE, sKehl, sDE, sEmpty, sCET, 0, -10000)

PlaceUniverse == { PlaceA, PlaceB, PlaceC, PlaceD, PlaceE, PlaceF }

\* Sequences of at most MaxPlaces distinct places: what de-duplication
\* hands to intern_strings.
PlaceSeqs ==
    UNION { { ps \in [1..n -> PlaceUniverse] :
                \A i, j \in 1..n : i # j => ps[i] # ps[j] } : n \in 0..MaxPlaces }

\* The database `intern_strings` and `build_grid` make of a place sequence.
BuildDatabase(ps) ==
    LET i == intern_strings(ps)
    IN  [strings |-> i.strings, places |-> i.places,
         grid |-> build_grid(i.places)]

\* The artifact Builder::build writes for it under one iteration order.
Artifact(ps) ==
    LET db == BuildDatabase(ps)
    IN  Serialize(db.strings, db.places, db.grid, SomeOrder(DOMAIN db.grid))

NoValue == [none |-> TRUE]

\* No download, merge or de-duplication is under way.
PipelineIdle ==
    /\ source = << >>
    /\ worker = << >>
    /\ temp_places = << >>
    /\ codes = << >>

(***************************************************************************)
(* Builder and loader run: intern, build the grid, write, read back.       *)
(***************************************************************************)
RuntimeIdle ==
    /\ DATA = << >>
    /\ decodable = FALSE
    /\ GEOCODER = [state |-> "uninit"]
    /\ pc = << >>
    /\ query = << >>
    /\ found = << >>
    /\ result = << >>
    /\ failure = << >>
    /\ observed = << >>
    /\ constructed = 0

InitCodec ==
    /\ RuntimeIdle
    /\ PipelineIdle
    /\ stage = "deduplicated"
    /\ input \in PlaceSeqs
    /\ strings = << >>
    /\ string_map = EmptyMap
    /\ places = << >>
    /\ grid = EmptyMap
    /\ out = << >>
    /\ loaded = NoValue
    /\ log = << >>

\* let (strings, compact_places) = self.intern_strings(places);
InternStrings ==
    /\ stage = "deduplicated"
    /\ LET r == intern_strings(input)
       IN  /\ strings' = r.strings
           /\ string_map' = r.map
           /\ places' = r.places
    /\ stage' = "interned"
    /\ UNCHANGED << input, grid, out, loaded, log >>
    /\ UNCHANGED runtimeVars
    /\ UNCHANGED pipelineVars

\* let grid = self.build_grid(&compact_places);
BuildGrid ==
    /\ stage = "interned"
    /\ grid' = build_grid(places)
    /\ stage' = "indexed"
    /\ UNCHANGED << input, strings, string_map, places, out, loaded, log >>
    /\ UNCHANGED runtimeVars
    /\ UNCHANGED pipelineVars

\* The writes of Builder::build, for every order the map may iterate in.
WriteDatabase ==
    /\ stage = "indexed"
    /\ \E order \in IterOrders(DOMAIN grid) :
           out' = Serialize(strings, places, grid, order)
    /\ stage' = "written"
    /\ UNCHANGED << input, strings, string_map, places, grid, loaded, log >>
    /\ UNCHANGED runtimeVars
    /\ UNCHANGED pipelineVars

\* Geocoder::load_database on the whole file.
LoadWritten ==
    /\ stage = "written"
    /\ loaded' = [len |-> Len(out), res |-> load_database(out)]
    /\ stage' = "loaded"
    /\ UNCHANGED << input, strings, string_map, places, grid, out, log >>
    /\ UNCHANGED runtimeVars
    /\ UNCHANGED pipelineVars

\* Geocoder::load_database on a file cut short after n bytes.
LoadTruncated ==
    /\ stage = "written"
    /\ \E n \in 0..(Len(out) - 1) :
           loaded' = [len |-> n, res |-> load_database(SubSeq(out, 1, n))]
    /\ stage' = "loaded"
    /\ UNCHANGED << input, strings, string_map, places, grid, out, log >>
    /\ UNCHANGED runtimeVars
    /\ UNCHANGED pipelineVars

NextCodec ==
    \/ InternStrings
    \/ BuildGrid
    \/ WriteDatabase
    \/ LoadWritten
    \/ LoadTruncated

SpecCodec == InitCodec /\ [][NextCodec]_vars


(***************************************************************************)
(* build/builder.rs: reading the per-country source files.                 *)
(*                                                                         *)
(* A row is one line of a source file after the split on tabs: `parts` is  *)
(* the number of fields, latitude and longitude are the parsed f64 values  *)
(* (in the DegScale representation), and region, region_code and district  *)
(* of a place row are what the admin1/admin2 lookups of download_country   *)
(* yield for the row's codes.                                              *)
(***************************************************************************)
FEATURE_CODES ==
    { << 80, 80, 76 >>, << 80, 80, 76, 65 >>, << 80, 80, 76, 65, 50 >>,
      << 80, 80, 76, 65, 51 >>, << 80, 80, 76, 65, 52 >>,
      << 80, 80, 76, 67 >>, << 80, 80, 76, 71 >>, << 80, 80, 76, 83 >> }

\* The filter_map closure of download_country on one row.
PlaceOfRow(country, r) ==
    IF r.parts < 18 \/ r.feature \notin FEATURE_CODES
    THEN << >>
    ELSE << TempPlace(r.name, r.region, r.region_code, r.district, country,
                      sEmpty, r.timezone,
                      ToFixed(r.latitude), ToFixed(r.longitude)) >>

RECURSIVE PlacesOfRows(_, _, _)
PlacesOfRows(country, rows, i) ==
    IF i > Len(rows) THEN << >>
    ELSE PlaceOfRow(country, rows[i]) \o PlacesOfRows(country, rows, i + 1)

\* download_country: Err when the fetch or the archive fails, else the
\* places of the rows that pass the filter, in file order.
download_country(country, file) ==
    IF file.ok THEN [ok |-> TRUE, val |-> PlacesOfRows(country, file.rows, 1)]
    ELSE [ok |-> FALSE]

PostalCode(country, code, district, lat, lon) ==
    [country |-> country, code |-> code, district |-> district,
     lat |-> lat, lon |-> lon]

\* The filter_map closure of download_postal_codes_for_country on one row.
PostalOfRow(r) ==
    IF r.parts < 11 THEN << >>
    ELSE << PostalCode(r.country, r.code, r.district,
                       ToFixed(r.latitude), ToFixed(r.longitude)) >>

RECURSIVE PostalsOfRows(_, _)
PostalsOfRows(rows, i) ==
    IF i > Len(rows) THEN << >>
    ELSE PostalOfRow(rows[i]) \o PostalsOfRows(rows, i + 1)

\* download_postal_codes_for_country: a body under 100 bytes is a file
\* without rows.
download_postal_codes_for_country(file) ==
    IF file.ok THEN [ok |-> TRUE, val |-> PostalsOfRows(file.rows, 1)]
    ELSE [ok |-> FALSE]

(***************************************************************************)
(* build/builder.rs: Builder::merge_postal_codes.                          *)
(***************************************************************************)
\* The first loop: postal_grid.entry(key).or_default().push(postal)
RECURSIVE PostalGridFrom(_, _, _)
PostalGridFrom(postal_codes, i, g) ==
    IF i > Len(postal_codes) THEN g
    ELSE PostalGridFrom(postal_codes, i + 1,
             GridPush(g, CellOf(postal_codes[i].lat, postal_codes[i].lon),
                      postal_codes[i]))

\* dlat * dlat + dlon * dlon of the fixed-point differences (exact in f64).
PlanarSq(place, postal) ==
    (place.lat - postal.lat) * (place.lat - postal.lat)
        + (place.lon - postal.lon) * (place.lon - postal.lon)

\* Plausible slip: the country filter is left out.
AnyCountry(postal, place) == TRUE

\* .filter(|p| p.country == place.country_code)
SameCountry(postal, place) == postal.country = place.country_code

\* Plausible slip: `dist <= d`, which lets a later equally near candidate
\* replace the earlier one.
CloserOrEqual(dist, closest) == ~closest.some \/ dist <= closest.val.dist

\* closest.is_none_or(|(_, d)| dist < d)
Closer(dist, closest) == ~closest.some \/ dist < closest.val.dist

\* The innermost loop over one cell's postal records, from position j on.
RECURSIVE ScanPostals(_, _, _, _)
ScanPostals(place, postals, j, closest) ==
    IF j > Len(postals) THEN closest
    ELSE IF SameCountry(postals[j], place)
              /\ Closer(PlanarSq(place, postals[j]), closest)
         THEN ScanPostals(place, postals, j + 1,
                  Some([postal |-> postals[j],
                        dist |-> PlanarSq(place, postals[j])]))
         ELSE ScanPostals(place, postals, j + 1, closest)

\* The loops over dlat and dlon: cell k of the nine, k = 1..9.
RECURSIVE ScanCells(_, _, _, _, _)
ScanCells(place, postal_grid, grid_key, k, closest) ==
    IF k > 9 THEN closest
    ELSE LET key == << grid_key[1] + Offsets[((k - 1) \div 3) + 1],
                       grid_key[2] + Offsets[((k - 1) % 3) + 1] >>
         IN  ScanCells(place, postal_grid, grid_key, k + 1,
                 IF key \in DOMAIN postal_grid
                 THEN ScanPostals(place, postal_grid[key], 1, closest)
                 ELSE closest)

\* Plausible slip: the district is copied whether or not the place has one.
AttachOverwrite(place, postal) ==
    [place EXCEPT !.postal_code = postal.code, !.district = postal.district]

\* place.postal_code = postal.code.clone();
\* if place.district.is_empty() { place.district = postal.district.clone() }
Attach(place, postal) ==
    [place EXCEPT !.postal_code = postal.code,
                  !.district = IF @ = sEmpty THEN postal.district ELSE @]

\* The body of `for place in places.iter_mut()`.
MergePlace(place, postal_grid) ==
    LET closest == ScanCells(place, postal_grid,
                             CellOf(place.lat, place.lon), 1, None)
    IN  IF closest.some THEN Attach(place, closest.val.postal) ELSE place

merge_postal_codes(ps, postal_codes) ==
    LET postal_grid == PostalGridFrom(postal_codes, 1, EmptyMap)
    IN  [i \in 1..Len(ps) |-> MergePlace(ps[i], postal_grid)]

(***************************************************************************)
(* build/builder.rs: Builder::deduplicate_places.                          *)
(***************************************************************************)
DedupCellSize == 1000

\* The comparator of sort_by says Less: the longer city (in bytes) first,
\* then the place whose postal code is not empty.
SortsBefore(a, b) ==
    \/ Len(a.city) > Len(b.city)
    \/ /\ Len(a.city) = Len(b.city)
       /\ a.postal_code # sEmpty
       /\ b.postal_code = sEmpty

\* Position of p in an already sorted run: behind every element that does
\* not sort after it (sort_by is stable).
RECURSIVE InsertStable(_, _, _)
InsertStable(sorted, p, i) ==
    IF i > Len(sorted) THEN Append(sorted, p)
    ELSE IF SortsBefore(p, sorted[i])
         THEN SubSeq(sorted, 1, i - 1) \o << p >>
                  \o SubSeq(sorted, i, Len(sorted))
         ELSE InsertStable(sorted, p, i + 1)

RECURSIVE SortFrom(_, _, _)
SortFrom(ps, i, sorted) ==
    IF i > Len(ps) THEN sorted
    ELSE SortFrom(ps, i + 1, InsertStable(sorted, ps[i], 1))

\* (p.lat / 1000, p.lon / 1000)
DedupKey(p) ==
    << TruncDiv(p.lat, DedupCellSize), TruncDiv(p.lon, DedupCellSize) >>

\* Plausible slip: the map keeps the last place of a cell (the insert
\* overwrites and the earlier place is dropped).
RECURSIVE RetainLast(_, _, _, _)
RetainLast(ps, i, seen, kept) ==
    IF i > Len(ps) THEN kept
    ELSE IF \E j \in (i + 1)..Len(ps) : DedupKey(ps[j]) = DedupKey(ps[i])
         THEN RetainLast(ps, i + 1, seen, kept)
         ELSE RetainLast(ps, i + 1, seen \cup { DedupKey(ps[i]) },
                         Append(kept, ps[i]))

\* Plausible slip: a place is compared with the one kept just before it
\* only (places.dedup_by_key(key)).
RECURSIVE RetainAdjacent(_, _, _, _)
RetainAdjacent(ps, i, seen, kept) ==
    IF i > Len(ps) THEN kept
    ELSE IF Len(kept) > 0 /\ DedupKey(kept[Len(kept)]) = DedupKey(ps[i])
         THEN RetainAdjacent(ps, i + 1, seen, kept)
         ELSE RetainAdjacent(ps, i + 1, seen, Append(kept, ps[i]))

\* places.retain(|p| seen.insert(key(p), ()).is_none())
RECURSIVE Retain(_, _, _, _)
Retain(ps, i, seen, kept) ==
    IF i > Len(ps) THEN kept
    ELSE IF DedupKey(ps[i]) \in seen
         THEN Retain(ps, i + 1, seen, kept)
         ELSE Retain(ps, i + 1, seen \cup { DedupKey(ps[i]) },
                     Append(kept, ps[i]))

deduplicate_places(ps) ==
    Retain(SortFrom(ps, 1, << >>), 1, {}, << >>)

(***************************************************************************)
(* The front of Builder::build: the two scoped download phases, the postal *)
(* merge and the de-duplication.                                           *)
(***************************************************************************)
MaxRows == 2        \* rows in one source file

Countries == { sFR, sDE }

s77 == << 55, 55 >>                       \* "77"
s91 == << 57, 49 >>                       \* "91"
s94 == << 57, 52 >>                       \* "94"
sPPL == << 80, 80, 76 >>                  \* "PPL"
sPPLC == << 80, 80, 76, 67 >>             \* "PPLC"
sADM1 == << 65, 68, 77, 49 >>             \* "ADM1"

PlaceRow(name, feature, latitude, longitude, region, code, district) ==
    [parts |-> 19, name |-> name, feature |-> feature,
     latitude |-> latitude, longitude |-> longitude, region |-> region,
     region_code |-> code, district |-> district, timezone |-> sCET]

PostalRow(country, code, district, latitude, longitude) ==
    [parts |-> 12, country |-> country, code |-> code, district |-> district,
     latitude |-> latitude, longitude |-> longitude]

\* Place rows.  Paris, Orly and Kehl fall into one de-duplication cell,
\* Orly and Kehl lying just west of the meridian on which Paris lies; Orly
\* lies half a fixed-point unit above 0.00500 degrees and Kehl half a unit
\* below zero; the third row of FR lies at the edge of the valid range.
RowParis == PlaceRow(sParis, sPPLC, 0, 0, sIDF, s75, sEmpty)
RowOrly == PlaceRow(sOrly, sPPL, 1001, -400, sIDF, s94, sOrly)
RowIle == PlaceRow(sIle, sPPL, 17999999, -36000000, sEmpty, sEmpty, sEmpty)
RowKehl == PlaceRow(sKehl, sPPL, -1, -600, sEmpty, sEmpty, sEmpty)
RowAdm == PlaceRow(sY, sADM1, 0, 0, sEmpty, sEmpty, sEmpty)

PlaceRows == [x \in Countries |->
                 IF x = sFR THEN { RowParis, RowOrly, RowIle }
                 ELSE { RowKehl, RowAdm }]

\* Postal rows.  ZipSouth and ZipEast are equally far from Paris, in two
\* different neighbouring cells; ZipKehl is nearer to Paris than any of
\* them but belongs to DE.
ZipNear == PostalRow(sFR, s75, sIDF, 600, 0)
ZipSouth == PostalRow(sFR, s94, sEmpty, -20000, 0)
ZipEast == PostalRow(sFR, s91, sOrly, 0, 20000)
ZipKehl == PostalRow(sDE, s77, sKehl, 0, -200)

PostalRows == [x \in Countries |->
                  IF x = sFR THEN { ZipNear, ZipSouth, ZipEast }
                  ELSE { ZipKehl }]

\* What one download can yield: a failed fetch, or a file of at most
\* MaxRows distinct rows in some order.
Files(rows) ==
    { [ok |-> FALSE] }
    \cup { [ok |-> TRUE, rows |-> f] :
             f \in UNION { { q \in [1..n -> rows] :
                               \A i, j \in 1..n : i # j => q[i] # q[j] } :
                           n \in 0..MaxRows } }

Sources ==
    { [places |-> p, postal |-> z] :
        p \in { f \in [Countries -> UNION { Files(PlaceRows[x]) : x \in Countries }] :
                  \A x \in Countries : f[x] \in Files(PlaceRows[x]) },
        z \in { f \in [Countries -> UNION { Files(PostalRows[x]) : x \in Countries }] :
                  \A x \in Countries : f[x] \in Files(PostalRows[x]) } }

InitBuild ==
    /\ RuntimeIdle
    /\ stage = "download_places"
    /\ input = << >>
    /\ strings = << >>
    /\ string_map = EmptyMap
    /\ places = << >>
    /\ grid = EmptyMap
    /\ out = << >>
    /\ loaded = NoValue
    /\ log = << >>
    /\ source \in Sources
    /\ worker = [x \in Countries |-> "spawned"]
    /\ temp_places = << >>
    /\ codes = << >>

unitVars == << input, strings, string_map, places, grid, out, loaded, log,
               source >>

\* Plausible slip: the error of a unit is propagated (`?`), which ends the
\* build with that error.
DownloadCountryPropagate(x) ==
    /\ stage = "download_places"
    /\ worker[x] = "spawned"
    /\ IF download_country(x, source.places[x]).ok
       THEN worker' = [worker EXCEPT ![x] = "fetched"] /\ UNCHANGED stage
       ELSE worker' = [worker EXCEPT ![x] = "done"] /\ stage' = "failed"
    /\ UNCHANGED << temp_places, codes >>
    /\ UNCHANGED unitVars
    /\ UNCHANGED runtimeVars

\* The thread of country x in download_places: download_country returns.
\* On Err the `if let Ok(data)` body is skipped and the thread ends.
DownloadCountry(x) ==
    /\ stage = "download_places"
    /\ worker[x] = "spawned"
    /\ worker' = [worker EXCEPT ![x] =
                     IF download_country(x, source.places[x]).ok
                     THEN "fetched" ELSE "done"]
    /\ UNCHANGED << stage, temp_places, codes >>
    /\ UNCHANGED unitVars
    /\ UNCHANGED runtimeVars

\* Plausible slip: the lock is taken per record
\* (for p in data { places.lock().unwrap().push(p) }), so the threads'
\* records interleave.  The records of x already pushed are those of the
\* collection that carry x's country code.
ExtendPlacesPerRecord(x) ==
    LET data == download_country(x, source.places[x]).val
        n == Cardinality({ i \in DOMAIN temp_places :
                             temp_places[i].country_code = x })
    IN  /\ stage = "download_places"
        /\ worker[x] = "fetched"
        /\ temp_places' = IF n < Len(data)
                          THEN Append(temp_places, data[n + 1])
                          ELSE temp_places
        /\ worker' = [worker EXCEPT ![x] =
                         IF n + 1 >= Len(data) THEN "done" ELSE "fetched"]
        /\ UNCHANGED << stage, codes >>
        /\ UNCHANGED unitVars
        /\ UNCHANGED runtimeVars

\* places.lock().unwrap().extend(data): one critical section.
ExtendPlaces(x) ==
    /\ stage = "download_places"
    /\ worker[x] = "fetched"
    /\ temp_places' = temp_places \o download_country(x, source.places[x]).val
    /\ worker' = [worker EXCEPT ![x] = "done"]
    /\ UNCHANGED << stage, codes >>
    /\ UNCHANGED unitVars
    /\ UNCHANGED runtimeVars

\* thread::scope has joined every thread; download_places returns Ok and
\* build goes on to download_postal_codes, which spawns its own threads.
JoinPlaces ==
    /\ stage = "download_places"
    /\ \A x \in Countries : worker[x] = "done"
    /\ stage' = "download_postal"
    /\ worker' = [x \in Countries |-> "spawned"]
    /\ UNCHANGED << temp_places, codes >>
    /\ UNCHANGED unitVars
    /\ UNCHANGED runtimeVars

\* The thread of country x in download_postal_codes.
DownloadPostalCodes(x) ==
    /\ stage = "download_postal"
    /\ worker[x] = "spawned"
    /\ worker' = [worker EXCEPT ![x] =
                     IF download_postal_codes_for_country(source.postal[x]).ok
                     THEN "fetched" ELSE "done"]
    /\ UNCHANGED << stage, temp_places, codes >>
    /\ UNCHANGED unitVars
    /\ UNCHANGED runtimeVars

\* codes.lock().unwrap().extend(data)
ExtendCodes(x) ==
    /\ stage = "download_postal"
    /\ worker[x] = "fetched"
    /\ codes' = codes \o download_postal_codes_for_country(source.postal[x]).val
    /\ worker' = [worker EXCEPT ![x] = "done"]
    /\ UNCHANGED << stage, temp_places >>
    /\ UNCHANGED unitVars
    /\ UNCHANGED runtimeVars

\* download_postal_codes returns Ok(codes).
JoinCodes ==
    /\ stage = "download_postal"
    /\ \A x \in Countries : worker[x] = "done"
    /\ stage' = "merge"
    /\ UNCHANGED << worker, temp_places, codes >>
    /\ UNCHANGED unitVars
    /\ UNCHANGED runtimeVars

\* Plausible slip: the collection is de-duplicated before the postal codes
\* are attached, so the sort does not see them.
MergeAfterDeduplicate ==
    /\ stage = "merge"
    /\ temp_places' = merge_postal_codes(deduplicate_places(temp_places), codes)
    /\ stage' = "merged"
    /\ UNCHANGED << worker, codes >>
    /\ UNCHANGED unitVars
    /\ UNCHANGED runtimeVars

\* self.merge_postal_codes(&mut places, codes)
MergePostalCodes ==
    /\ stage = "merge"
    /\ temp_places' = merge_postal_codes(temp_places, codes)
    /\ stage' = "merged"
    /\ UNCHANGED << worker, codes >>
    /\ UNCHANGED unitVars
    /\ UNCHANGED runtimeVars

\* let places = self.deduplicate_places(places); the result is what
\* intern_strings is then called with.
DeduplicatePlaces ==
    /\ stage = "merged"
    /\ temp_places' = deduplicate_places(temp_places)
    /\ input' = deduplicate_places(temp_places)
    /\ stage' = "deduplicated"
    /\ UNCHANGED << worker, codes >>
    /\ UNCHANGED << strings, string_map, places, grid, out, loaded, log,
                    source >>
    /\ UNCHANGED runtimeVars

NextBuild ==
    \/ \E x \in Countries : DownloadCountry(x)
    \/ \E x \in Countries : ExtendPlaces(x)
    \/ JoinPlaces
    \/ \E x \in Countries : DownloadPostalCodes(x)
    \/ \E x \in Countries : ExtendCodes(x)
    \/ JoinCodes
    \/ MergePostalCodes
    \/ DeduplicatePlaces

SpecBuild == InitBuild /\ [][NextBuild]_vars

\* Builder::build from the downloads to the written file.
NextPipeline ==
    \/ NextBuild
    \/ InternStrings
    \/ BuildGrid
    \/ WriteDatabase

SpecPipeline == InitBuild /\ [][NextPipeline]_vars

(***************************************************************************)
(* src/types.rs: Location::distance_to (haversine).                        *)
(*                                                                         *)
(* The program computes  a = sin^2(dlat/2) + cos(lat1) cos(lat2)           *)
(* sin^2(dlon/2)  and returns  6371 * 2 * atan2(sqrt a, sqrt(1 - a)),      *)
(* which increases strictly with a.  The model returns a itself, in units  *)
(* of k^2/4 with k the radians in one fixed-point unit, so that            *)
(* sin^2(d/2) = d^2 - (k^2/12) d^4  and  cos(p)cos(q) = 1 - (k^2/2)        *)
(* (p^2 + q^2)  up to terms below one unit for the coordinates of the      *)
(* model (within 0.3 degree of the origin).  Arithmetic is exact integer   *)
(* arithmetic, not f64: two distances are equal in the model exactly when  *)
(* the points are placed symmetrically.                                    *)
(***************************************************************************)
\* floor((h / 2)^2) for an angle of h half units, in squared units.
HalfSq(h) ==
    LET e == h \div 2
        m == h % 2
    IN  e * e + e * m

\* sin^2(d / 2), scaled: d^2 less its fourth-order term (k^2 / 12 = 1 / 393937e9).
SinSqHalf(d) ==
    LET u == HalfSq(d)
    IN  u - ((u \div 100000) * (u \div 10000)) \div 393937

distance_to(self, other) ==
    LET hlat == SinSqHalf(other.latitude - self.latitude)
        hlon == SinSqHalf(other.longitude - self.longitude)
        \* 1 - cos(lat1) cos(lat2) = (k^2 / 2)(lat1^2 + lat2^2), k^2 / 2 = 1 / 65656e9
        p == HalfSq(self.latitude) + HalfSq(other.latitude)
    IN  hlat + hlon - ((hlon \div 100000) * (p \div 10000)) \div 65656

\* CompactPlace::location
location(place) ==
    [latitude |-> ToDegrees(place.lat), longitude |-> ToDegrees(place.lon)]

(***************************************************************************)
(* src/database.rs: the query.                                             *)
(***************************************************************************)
\* f64::round of a number of fixed-point units given in half units: the
\* nearest integer, a half going away from zero.
RoundHalf(x) == IF x >= 0 THEN (x + 1) \div HalfUnits
                ELSE -((1 - x) \div HalfUnits)

\* Plausible slip: the product is rounded before the cast
\* ((lat * 100000.0).round() as i32).
grid_key_round(loc) ==
    << AsI16(TruncDiv(RoundHalf(loc.latitude), CellSize)),
       AsI16(TruncDiv(RoundHalf(loc.longitude), CellSize)) >>

\* Geocoder::grid_key
grid_key(loc) ==
    << AsI16(TruncDiv(ToFixed(loc.latitude), CellSize)),
       AsI16(TruncDiv(ToFixed(loc.longitude), CellSize)) >>

\* The IDs of cells k..9 of the block, dlat outermost, dlon inside it; a
\* cell the map does not hold contributes nothing (filter_map).
RECURSIVE CandidatesFrom(_, _, _)
CandidatesFrom(db, key, k) ==
    IF k > Len(Offsets) * Len(Offsets) THEN << >>
    ELSE LET cell == << key[1] + Offsets[((k - 1) \div Len(Offsets)) + 1],
                        key[2] + Offsets[((k - 1) % Len(Offsets)) + 1] >>
         IN  (IF cell \in DOMAIN db.grid THEN db.grid[cell] ELSE << >>)
             \o CandidatesFrom(db, key, k + 1)

\* Plausible slip: only the query's own cell is searched.
CandidatesOwnCell(db, key) ==
    IF key \in DOMAIN db.grid THEN db.grid[key] ELSE << >>

\* flat_map(...).flatten(): the candidate IDs in iteration order.
Candidates(db, key) == CandidatesFrom(db, key, 1)

\* .map(|&idx| (idx, location.distance_to(&place.location())))
Ranked(db, loc, ids) ==
    [i \in 1..Len(ids) |->
        [idx |-> ids[i],
         dist |-> distance_to(loc, location(db.places[ids[i] + 1]))]]

\* Plausible slip: the pairs are compared on field .0, the ID, not on the
\* distance.
RECURSIVE MinByIndex(_, _, _)
MinByIndex(r, i, best) ==
    IF i > Len(r) THEN best
    ELSE MinByIndex(r, i + 1, IF r[i].idx < best.idx THEN r[i] ELSE best)

\* Plausible slip: max_by in place of min_by.
RECURSIVE MaxBy(_, _, _)
MaxBy(r, i, best) ==
    IF i > Len(r) THEN best
    ELSE MaxBy(r, i + 1, IF r[i].dist > best.dist THEN r[i] ELSE best)

\* Plausible slip: a later element replaces the best so far when it compares
\* less or equal, so of equal minima the last is returned.
RECURSIVE MinByLast(_, _, _)
MinByLast(r, i, best) ==
    IF i > Len(r) THEN best
    ELSE MinByLast(r, i + 1, IF r[i].dist <= best.dist THEN r[i] ELSE best)

\* Iterator::min_by: a later element replaces the best so far only when it
\* compares strictly less, so of equal minima the first is returned.
RECURSIVE MinBy(_, _, _)
MinBy(r, i, best) ==
    IF i > Len(r) THEN best
    ELSE MinBy(r, i + 1, IF r[i].dist < best.dist THEN r[i] ELSE best)

\* Plausible slip: an empty block makes the search widen to every cell.
find_nearest_widening(db, loc, key) ==
    LET near == Candidates(db, key)
        all == [i \in 1..Len(db.places) |-> i - 1]
        r == Ranked(db, loc, IF Len(near) = 0 THEN all ELSE near)
    IN  IF Len(r) = 0 THEN None ELSE Some(MinBy(r, 2, r[1]).idx)

\* Geocoder::find_nearest
find_nearest(db, loc, key) ==
    LET r == Ranked(db, loc, Candidates(db, key))
    IN  IF Len(r) = 0 THEN None ELSE Some(MinBy(r, 2, r[1]).idx)

\* Plausible slip: latitude and longitude are taken from each other's field.
build_place_swapped(db, idx) ==
    LET place == db.places[idx + 1]
    IN  [city |-> db.strings[place.city + 1],
         region |-> db.strings[place.region + 1],
         region_code |-> db.strings[place.region_code + 1],
         district |-> db.strings[place.district + 1],
         country_code |-> db.strings[place.country_code + 1],
         postal_code |-> db.strings[place.postal_code + 1],
         timezone |-> db.strings[place.timezone + 1],
         latitude |-> ToDegrees(place.lon),
         longitude |-> ToDegrees(place.lat)]

\* Geocoder::build_place: the PlaceInput handed to enrich_place.
build_place(db, idx) ==
    LET place == db.places[idx + 1]
    IN  [city |-> db.strings[place.city + 1],
         region |-> db.strings[place.region + 1],
         region_code |-> db.strings[place.region_code + 1],
         district |-> db.strings[place.district + 1],
         country_code |-> db.strings[place.country_code + 1],
         postal_code |-> db.strings[place.postal_code + 1],
         timezone |-> db.strings[place.timezone + 1],
         latitude |-> ToDegrees(place.lat),
         longitude |-> ToDegrees(place.lon)]

\* Every ID of the block names a record (places[idx as usize] does not panic).
IdsInRange(db, key) ==
    LET ids == Candidates(db, key)
    IN  \A i \in 1..Len(ids) : ids[i] < Len(db.places)


(***************************************************************************)
(* Run time: NumThreads callers of lookup() sharing the static GEOCODER.   *)
(***************************************************************************)
Threads == 1..NumThreads

Loc(lat, lon) == [latitude |-> lat, longitude |-> lon]

\* Query points, in half units: the origin; fixed point -9999.5 on the
\* latitude axis, just inside the edge of cell 0; and fixed point 10000.5 on
\* the longitude axis, in cell 1.
Queries == { Loc(0, 0), Loc(-19999, 0), Loc(0, 20001) }

\* A stream whose only string is the byte 0xFF.
BadUtf8 ==
    to_le_bytes(1, 8) \o << 1, 255 >> \o to_le_bytes(0, 8) \o to_le_bytes(0, 8)

\* What DATA can hold: an artifact the builder wrote, the empty slice of
\* the no-build-database feature, or a damaged file.
Artifacts ==
    { Artifact(ps) : ps \in PlaceSeqs }
    \cup { << >>, BadUtf8 }
    \cup { SubSeq(Artifact(ps), 1, Len(Artifact(ps)) \div 2) : ps \in PlaceSeqs }

BuilderIdle ==
    /\ stage = "none"
    /\ input = << >>
    /\ strings = << >>
    /\ string_map = EmptyMap
    /\ places = << >>
    /\ grid = EmptyMap
    /\ out = << >>
    /\ loaded = NoValue
    /\ log = << >>

Init ==
    /\ DATA \in Artifacts
    /\ decodable = load_database(DATA).ok
    /\ GEOCODER = [state |-> "uninit"]
    /\ pc = [t \in Threads |-> "idle"]
    /\ query = [t \in Threads |-> NoValue]
    /\ found = [t \in Threads |-> None]
    /\ result = [t \in Threads |-> NoValue]
    /\ failure = [t \in Threads |-> NoValue]
    /\ observed = [t \in Threads |-> NoValue]
    /\ constructed = 0
    /\ BuilderIdle
    /\ PipelineIdle

\* genom::lookup(latitude, longitude) is entered.
Call(t) ==
    /\ pc[t] = "idle"
    /\ \E q \in Queries : query' = [query EXCEPT ![t] = q]
    /\ pc' = [pc EXCEPT ![t] = "global"]
    /\ UNCHANGED << DATA, decodable, GEOCODER, found, result, failure,
                    observed, constructed >>
    /\ UNCHANGED builderVars
    /\ UNCHANGED pipelineVars

\* Plausible slip: `if GEOCODER.get().is_none() { set(new()) }` without the
\* once-guard: whoever finds the cell empty constructs.
GetOrInitRacy(t) ==
    /\ pc[t] = "global"
    /\ IF GEOCODER.state = "complete"
       THEN /\ pc' = [pc EXCEPT ![t] = "find"]
            /\ observed' = [observed EXCEPT ![t] = GEOCODER.id]
       ELSE /\ pc' = [pc EXCEPT ![t] = "new"]
            /\ UNCHANGED observed
    /\ UNCHANGED << DATA, decodable, GEOCODER, query, found, result, failure,
                    constructed >>
    /\ UNCHANGED builderVars
    /\ UNCHANGED pipelineVars

\* GEOCODER.get_or_init(..): return the value if the cell is complete; run
\* the closure if no one is running it; otherwise wait for the runner.
GetOrInit(t) ==
    /\ pc[t] = "global"
    /\ GEOCODER.state # "running"
    /\ IF GEOCODER.state = "complete"
       THEN /\ pc' = [pc EXCEPT ![t] = "find"]
            /\ observed' = [observed EXCEPT ![t] = GEOCODER.id]
            /\ UNCHANGED GEOCODER
       ELSE /\ pc' = [pc EXCEPT ![t] = "new"]
            /\ GEOCODER' = [state |-> "running"]
            /\ UNCHANGED observed
    /\ UNCHANGED << DATA, decodable, query, found, result, failure,
                    constructed >>
    /\ UNCHANGED builderVars
    /\ UNCHANGED pipelineVars

\* Plausible slip: `Self::new().unwrap_or_default()`: a failed decode
\* publishes an empty database.
NewOrDefault(t) ==
    /\ pc[t] = "new"
    /\ LET r == load_database(DATA)
           db == IF r.ok THEN r.val
                 ELSE [strings |-> << >>, places |-> << >>, grid |-> EmptyMap]
       IN  GEOCODER' = [state |-> "complete", id |-> constructed + 1,
                        db |-> db]
    /\ constructed' = constructed + 1
    /\ observed' = [observed EXCEPT ![t] = constructed + 1]
    /\ pc' = [pc EXCEPT ![t] = "find"]
    /\ UNCHANGED << DATA, decodable, query, found, result, failure >>
    /\ UNCHANGED builderVars
    /\ UNCHANGED pipelineVars

\* The closure: Self::new().expect("Failed to initialize geocoder").  Ok
\* completes the cell; Err panics, and the cell is left for the next caller
\* to initialise.
New(t) ==
    /\ pc[t] = "new"
    /\ LET r == load_database(DATA)
       IN  IF r.ok
           THEN /\ GEOCODER' = [state |-> "complete", id |-> constructed + 1,
                                db |-> r.val]
                /\ constructed' = constructed + 1
                /\ observed' = [observed EXCEPT ![t] = constructed + 1]
                /\ pc' = [pc EXCEPT ![t] = "find"]
                /\ UNCHANGED failure
           ELSE /\ GEOCODER' = [state |-> "uninit"]
                /\ pc' = [pc EXCEPT ![t] = "panicked"]
                /\ failure' = [failure EXCEPT ![t] =
                       [msg |-> "Failed to initialize geocoder", err |-> r.err]]
                /\ UNCHANGED << constructed, observed >>
    /\ UNCHANGED << DATA, decodable, query, found, result >>
    /\ UNCHANGED builderVars
    /\ UNCHANGED pipelineVars

\* Plausible slip: a hit is moved to the front of its cell's list so that
\* the next query meets it first.
FindNearestPromote(t) ==
    /\ pc[t] = "find"
    /\ LET db == GEOCODER.db
           f == find_nearest(db, query[t], grid_key(query[t]))
       IN  /\ found' = [found EXCEPT ![t] = f]
           /\ IF f.some
              THEN LET c == CellOf(db.places[f.val + 1].lat,
                                   db.places[f.val + 1].lon)
                       rest == SelectSeq(db.grid[c], LAMBDA i : i # f.val)
                   IN  /\ GEOCODER' = [GEOCODER EXCEPT
                                          !.db.grid[c] = << f.val >> \o rest]
                       /\ pc' = [pc EXCEPT ![t] = "build"]
                       /\ UNCHANGED result
              ELSE /\ result' = [result EXCEPT ![t] = None]
                   /\ pc' = [pc EXCEPT ![t] = "done"]
                   /\ UNCHANGED GEOCODER
    /\ UNCHANGED << DATA, decodable, query, failure, observed, constructed >>
    /\ UNCHANGED builderVars
    /\ UNCHANGED pipelineVars

\* Plausible slip: the candidates are gathered in a hash set, so which of
\* several equally near records comes first is not fixed.
FindNearestUnordered(t) ==
    /\ pc[t] = "find"
    /\ LET db == GEOCODER.db
           r == Ranked(db, query[t], Candidates(db, grid_key(query[t])))
       IN  IF Len(r) = 0
           THEN /\ found' = [found EXCEPT ![t] = None]
                /\ result' = [result EXCEPT ![t] = None]
                /\ pc' = [pc EXCEPT ![t] = "done"]
           ELSE /\ \E i \in 1..Len(r) :
                       /\ \A j \in 1..Len(r) : r[i].dist <= r[j].dist
                       /\ found' = [found EXCEPT ![t] = Some(r[i].idx)]
                /\ pc' = [pc EXCEPT ![t] = "build"]
                /\ UNCHANGED result
    /\ UNCHANGED << DATA, decodable, GEOCODER, query, failure, observed,
                    constructed >>
    /\ UNCHANGED builderVars
    /\ UNCHANGED pipelineVars

\* Geocoder::lookup up to `self.find_nearest(&location, grid_key)?`: None
\* returns at once; indexing `places` with an ID it does not hold panics.
FindNearestStep(t) ==
    /\ pc[t] = "find"
    /\ LET db == GEOCODER.db
           key == grid_key(query[t])
       IN  IF ~IdsInRange(db, key)
           THEN /\ pc' = [pc EXCEPT ![t] = "panicked"]
                /\ failure' = [failure EXCEPT ![t] =
                       [msg |-> "index out of bounds", err |-> "places"]]
                /\ UNCHANGED << found, result >>
           ELSE LET f == find_nearest(db, query[t], key)
                IN  /\ found' = [found EXCEPT ![t] = f]
                    /\ UNCHANGED failure
                    /\ IF f.some
                       THEN /\ pc' = [pc EXCEPT ![t] = "build"]
                            /\ UNCHANGED result
                       ELSE /\ result' = [result EXCEPT ![t] = None]
                            /\ pc' = [pc EXCEPT ![t] = "done"]
    /\ UNCHANGED << DATA, decodable, GEOCODER, query, observed, constructed >>
    /\ UNCHANGED builderVars
    /\ UNCHANGED pipelineVars

\* Plausible slip: the winning ID is parked in a static shared by all
\* callers, so build_place may pick up the ID another caller stored.
BuildPlaceShared(t) ==
    /\ pc[t] = "build"
    /\ \E u \in Threads :
           /\ found[u].some
           /\ result' = [result EXCEPT ![t] =
                  Some(build_place(GEOCODER.db, found[u].val))]
    /\ pc' = [pc EXCEPT ![t] = "done"]
    /\ UNCHANGED << DATA, decodable, GEOCODER, query, found, failure,
                    observed, constructed >>
    /\ UNCHANGED builderVars
    /\ UNCHANGED pipelineVars

\* Some(self.build_place(idx))
BuildPlaceStep(t) ==
    /\ pc[t] = "build"
    /\ result' = [result EXCEPT ![t] =
           Some(build_place(GEOCODER.db, found[t].val))]
    /\ pc' = [pc EXCEPT ![t] = "done"]
    /\ UNCHANGED << DATA, decodable, GEOCODER, query, found, failure,
                    observed, constructed >>
    /\ UNCHANGED builderVars
    /\ UNCHANGED pipelineVars

\* The caller takes the result; the thread is free to call again.
Return(t) ==
    /\ pc[t] = "done"
    /\ pc' = [pc EXCEPT ![t] = "idle"]
    /\ query' = [query EXCEPT ![t] = NoValue]
    /\ found' = [found EXCEPT ![t] = None]
    /\ result' = [result EXCEPT ![t] = NoValue]
    /\ observed' = [observed EXCEPT ![t] = NoValue]
    /\ UNCHANGED << DATA, decodable, GEOCODER, failure, constructed >>
    /\ UNCHANGED builderVars
    /\ UNCHANGED pipelineVars

Next ==
    \E t \in Threads :
        \/ Call(t)
        \/ GetOrInit(t)
        \/ New(t)
        \/ FindNearestStep(t)
        \/ BuildPlaceStep(t)
        \/ Return(t)

Spec == Init /\ [][Next]_vars


(***************************************************************************)
(* Properties of the query (specification Spec).                           *)
(***************************************************************************)
InLookup(t) == pc[t] \in { "find", "build", "done" }

\* The record IDs listed in the cells whose key differs from `key` by at
\* most one on each axis.
BlockIds(db, key) ==
    { id \in 0..(Len(db.places) - 1) :
        \E c \in DOMAIN db.grid :
            /\ c[1] - key[1] \in -1..1
            /\ c[2] - key[2] \in -1..1
            /\ \E i \in 1..Len(db.grid[c]) : db.grid[c][i] = id }

DistanceOf(db, q, id) == distance_to(q, location(db.places[id + 1]))

\* C1: when the 3x3 block of cells around the query's cell lists at least
\* one record, lookup returns a record of the block whose great-circle
\* distance to the query point is minimal among all records of the block.
C1_NearestInBlock ==
    \A t \in Threads :
        pc[t] = "done" =>
            LET db == GEOCODER.db
                ids == BlockIds(db, grid_key(query[t]))
            IN  ids # {} =>
                    /\ result[t].some
                    /\ found[t].some
                    /\ found[t].val \in ids
                    /\ \A id \in ids :
                           DistanceOf(db, query[t], found[t].val)
                               <= DistanceOf(db, query[t], id)

\* C1 witness: a lookup has returned with two records at different
\* distances in its block.
C1_Witness ==
    \E t \in Threads :
        /\ pc[t] = "done"
        /\ result[t].some
        /\ \E id \in BlockIds(GEOCODER.db, grid_key(query[t])) :
               DistanceOf(GEOCODER.db, query[t], found[t].val)
                   < DistanceOf(GEOCODER.db, query[t], id)

\* C2 as claimed: whenever lookup returns a record, no record of the whole
\* database is strictly nearer to the query point.
C2_NearestOfAll ==
    \A t \in Threads :
        (pc[t] = "done" /\ result[t].some) =>
            \A id \in 0..(Len(GEOCODER.db.places) - 1) :
                ~(DistanceOf(GEOCODER.db, query[t], id)
                      < DistanceOf(GEOCODER.db, query[t], found[t].val))

\* C2 amended: whenever lookup returns a record, no record listed in the
\* nine cells of the 3x3 block around the query's cell is strictly nearer
\* to the query point than the returned one.
C2_NoNearerInBlock ==
    \A t \in Threads :
        (pc[t] = "done" /\ result[t].some) =>
            ~ \E id \in BlockIds(GEOCODER.db, grid_key(query[t])) :
                  DistanceOf(GEOCODER.db, query[t], id)
                      < DistanceOf(GEOCODER.db, query[t], found[t].val)

\* C2 witness: lookup returned a record of the block while a record outside
\* the block is strictly nearer.
C2_Witness ==
    \E t \in Threads :
        /\ pc[t] = "done"
        /\ result[t].some
        /\ \E id \in 0..(Len(GEOCODER.db.places) - 1) :
               /\ id \notin BlockIds(GEOCODER.db, grid_key(query[t]))
               /\ DistanceOf(GEOCODER.db, query[t], id)
                      < DistanceOf(GEOCODER.db, query[t], found[t].val)

\* C3: lookup returns nothing exactly when none of the nine cells around
\* the query's cell lists a record (records elsewhere do not change that),
\* and a cell the grid does not hold makes no caller fail.
C3_NoneIffBlockEmpty ==
    \A t \in Threads :
        /\ pc[t] = "done" =>
               (result[t] = None <=>
                    BlockIds(GEOCODER.db, grid_key(query[t])) = {})
        /\ decodable => pc[t] # "panicked"

\* C3 witness: lookup returned nothing although the database holds a record
\* outside the block.
C3_Witness ==
    \E t \in Threads :
        /\ pc[t] = "done"
        /\ result[t] = None
        /\ Len(GEOCODER.db.places) > 0

(***************************************************************************)
(* Properties of the global instance (specification Spec).                 *)
(***************************************************************************)
\* C4: under concurrent first use at most one construction succeeds, every
\* caller that got past Geocoder::global() holds the one completed
\* instance, and when construction fails no caller gets an instance and all
\* callers that failed carry the same failure.
C4_SingleInitialization ==
    /\ constructed <= 1
    /\ \A t \in Threads :
           InLookup(t) =>
               /\ constructed = 1
               /\ GEOCODER.state = "complete"
               /\ observed[t] = GEOCODER.id
    /\ \A t, u \in Threads :
           (InLookup(t) /\ InLookup(u)) => observed[t] = observed[u]
    /\ \A t, u \in Threads :
           (pc[t] = "panicked" /\ pc[u] = "panicked") => failure[t] = failure[u]
    /\ \A t, u \in Threads : ~(pc[t] = "panicked" /\ InLookup(u))

\* C4 witness: two callers are past global() at once and hold the instance
\* of the single successful construction.
C4_Witness ==
    \E t, u \in Threads :
        /\ t # u
        /\ InLookup(t)
        /\ InLookup(u)
        /\ constructed = 1

\* C5: when the artifact does not decode, no instance is ever published and
\* no caller ever gets as far as a lookup result, present or absent.
C5_DecodeFailureIsFatal ==
    ~decodable =>
        /\ GEOCODER.state # "complete"
        /\ constructed = 0
        /\ \A t \in Threads : ~InLookup(t) /\ result[t] = NoValue

\* C5 witness: the artifact does not decode and every caller has panicked
\* with the initialisation failure.
C5_Witness ==
    /\ ~decodable
    /\ \A t \in Threads :
           /\ pc[t] = "panicked"
           /\ failure[t].msg = "Failed to initialize geocoder"

\* C6: no step of any lookup, whatever the other callers are doing, changes
\* the published database (strings, records, grid) or the artifact.
C6_LookupLeavesDatabase ==
    [][(\E t \in Threads : pc[t] \in { "find", "build" } /\ pc'[t] # pc[t])
           => (GEOCODER' = GEOCODER /\ DATA' = DATA)]_vars

\* C6 witness: two callers are inside lookup at once, one of them with a
\* record already found, on a database that holds records.
C6_Witness ==
    \E t, u \in Threads :
        /\ t # u
        /\ pc[t] = "build"
        /\ pc[u] \in { "find", "build" }
        /\ Len(GEOCODER.db.places) > 1

C8_RoundTrip ==
    (stage = "loaded" /\ loaded.len = Len(out)) =>
        /\ loaded.res.ok
        /\ loaded.res.val.strings = strings
        /\ loaded.res.val.places = places
        /\ DOMAIN loaded.res.val.grid = DOMAIN grid
        /\ \A c \in DOMAIN grid : loaded.res.val.grid[c] = grid[c]

\* C8 witness: a database of two records in two cells, one of them with a
\* negative coordinate and region and region code differing, was read back.
C8_Witness ==
    /\ stage = "loaded"
    /\ loaded.len = Len(out)
    /\ Cardinality(DOMAIN grid) = 2
    /\ \E i \in 1..Len(places) :
           places[i].lat < 0 /\ places[i].region # places[i].region_code

\* C9: decoding any strict prefix of the encoder's bytes fails with a
\* decode error and yields no database.
C9_TruncatedFails ==
    (stage = "loaded" /\ loaded.len < Len(out)) =>
        /\ ~loaded.res.ok
        /\ loaded.res.err \in { "UnexpectedEof", "FromUtf8Error" }

\* C9 witness: a file of two records cut one byte short was refused.
C9_Witness ==
    /\ stage = "loaded"
    /\ Len(places) = 2
    /\ loaded.len = Len(out) - 1
    /\ ~loaded.res.ok

\* C11: once intern_strings has run, no string occurs twice in the table;
\* every index intern_string handed out (the values of its map) is below the
\* table length and the entry there is the value interned; and each of the
\* seven string indices of every compact record is in range and resolves to
\* the text of the place it was made from.
C11_InternedIndicesResolve ==
    (stage \in { "interned", "indexed", "written", "loaded" }) =>
        /\ \A i, j \in 1..Len(strings) : i # j => strings[i] # strings[j]
        /\ \A s \in DOMAIN string_map :
               /\ string_map[s] < Len(strings)
               /\ strings[string_map[s] + 1] = s
        /\ Len(places) = Len(input)
        /\ \A i \in 1..Len(places) :
               \A k \in 1..Len(FieldOrder) :
                   /\ places[i][FieldOrder[k]] \in 0..(Len(strings) - 1)
                   /\ strings[places[i][FieldOrder[k]] + 1]
                          = input[i][FieldOrder[k]]

\* C11 witness: two places were interned that share a region but not a
\* city, so an index was handed out a second time.
C11_Witness ==
    /\ stage = "interned"
    /\ Len(places) = 2
    /\ places[1].region = places[2].region
    /\ places[1].city # places[2].city
    /\ input[1].region # sEmpty

\* C12: after build_grid over N records every record ID 0..N-1 stands in
\* exactly one cell's list, exactly once, that cell is the one computed from
\* the record's own coordinates, and the lists hold no other ID.
C12_GridPartition ==
    (stage \in { "indexed", "written", "loaded" }) =>
        LET Slots == UNION { { << c, k >> : k \in DOMAIN grid[c] } :
                                c \in DOMAIN grid }
        IN  /\ \A sl \in Slots : grid[sl[1]][sl[2]] \in 0..(Len(places) - 1)
            /\ \A id \in 0..(Len(places) - 1) :
                   /\ Cardinality({ sl \in Slots :
                                       grid[sl[1]][sl[2]] = id }) = 1
                   /\ \E sl \in Slots :
                          /\ grid[sl[1]][sl[2]] = id
                          /\ sl[1] = CellOf(places[id + 1].lat,
                                            places[id + 1].lon)

\* C12 witness: a grid was built in which one cell lists two records.
C12_Witness ==
    /\ stage = "indexed"
    /\ \E c \in DOMAIN grid : Len(grid[c]) = 2

(***************************************************************************)
(* The interner on its own: a run of intern_string calls.                  *)
(***************************************************************************)
InternValues == { sEmpty, sFR, sDE, sParis }

InitIntern ==
    /\ RuntimeIdle
    /\ PipelineIdle
    /\ stage = "interning"
    /\ input = << >>
    /\ strings = << >>
    /\ string_map = EmptyMap
    /\ places = << >>
    /\ grid = EmptyMap
    /\ out = << >>
    /\ loaded = NoValue
    /\ log = << >>

\* One call intern_string(s, &mut string_map, &mut strings).
Intern ==
    /\ stage = "interning"
    /\ Len(log) < MaxInterns
    /\ \E s \in InternValues :
           LET r == intern_string(s, string_map, strings)
           IN  /\ strings' = r.strings
               /\ string_map' = r.map
               /\ log' = Append(log, [value |-> s, idx |-> r.idx,
                                      before |-> Len(strings),
                                      after |-> Len(r.strings)])
    /\ UNCHANGED << stage, input, places, grid, out, loaded >>
    /\ UNCHANGED runtimeVars
    /\ UNCHANGED pipelineVars

NextIntern == Intern

SpecIntern == InitIntern /\ [][NextIntern]_vars

(***************************************************************************)
(* A length written and read back: write_varint, then read_varint.         *)
(***************************************************************************)
\* Lengths at which the number of seven-bit groups changes, and the largest
\* length the model's integers hold.
LargeLengths ==
    { 16383, 16384, 2097151, 2097152, 268435455, 268435456, 2147483647 }

Lengths == (0..MaxLength) \cup LargeLengths

\* What the file holds after the length: nothing, or bytes of the string,
\* with the high bit clear or set.
Tails == { << >>, << 0 >>, << 255, 1 >> }

\* `input` is the length about to be written.
InitVarint ==
    /\ RuntimeIdle
    /\ PipelineIdle
    /\ stage = "length"
    /\ input \in Lengths
    /\ strings = << >>
    /\ string_map = EmptyMap
    /\ places = << >>
    /\ grid = EmptyMap
    /\ out = << >>
    /\ loaded = NoValue
    /\ log = << >>

\* write_varint(&mut out, bytes.len() as u64)?; out.write_all(bytes)?;
WriteLength ==
    /\ stage = "length"
    /\ \E tail \in Tails : out' = write_varint(input) \o tail
    /\ stage' = "length_written"
    /\ UNCHANGED << input, strings, string_map, places, grid, loaded, log >>
    /\ UNCHANGED runtimeVars
    /\ UNCHANGED pipelineVars

\* let len = Self::read_varint(&mut cursor)? as usize;
ReadLength ==
    /\ stage = "length_written"
    /\ loaded' = read_varint(out, 0)
    /\ stage' = "length_read"
    /\ UNCHANGED << input, strings, string_map, places, grid, out, log >>
    /\ UNCHANGED runtimeVars
    /\ UNCHANGED pipelineVars

NextVarint ==
    \/ WriteLength
    \/ ReadLength

SpecVarint == InitVarint /\ [][NextVarint]_vars

\* C10: the first intern of a value appends it and returns the table length
\* before the append; every later intern of an equal value returns that
\* same index and leaves the table as it was; after any run the table has
\* as many entries as the run has distinct values.
C10_InternIdempotent ==
    /\ \A i \in 1..Len(log) :
           IF \A j \in 1..(i - 1) : log[j].value # log[i].value
           THEN /\ log[i].idx = log[i].before
                /\ log[i].after = log[i].before + 1
                /\ strings[log[i].after] = log[i].value
           ELSE /\ \E j \in 1..(i - 1) :
                       log[j].value = log[i].value /\ log[j].idx = log[i].idx
                /\ log[i].after = log[i].before
    /\ Len(strings) = Cardinality({ log[i].value : i \in 1..Len(log) })

\* C10 witness: a value was interned, then another, then the first again.
C10_Witness ==
    /\ Len(log) >= 3
    /\ log[1].value = log[3].value
    /\ log[2].value # log[1].value


(***************************************************************************)
(* Properties of the grid key and of the fixed-point conversion.           *)
(***************************************************************************)
\* C13: each component of a grid cell key is floor(coordinate / 10000), for
\* negative fixed-point coordinates too: the key under which the grid lists
\* a record, and the key lookup computes for a query point.
C13_FloorCellKey ==
    /\ GEOCODER.state = "complete" =>
           \A c \in DOMAIN GEOCODER.db.grid :
               \A k \in DOMAIN GEOCODER.db.grid[c] :
                   LET p == GEOCODER.db.places[GEOCODER.db.grid[c][k] + 1]
                   IN  c = << p.lat \div CellSize, p.lon \div CellSize >>
    /\ \A t \in Threads :
           InLookup(t) =>
               grid_key(query[t])
                   = << ToFixed(query[t].latitude) \div CellSize,
                        ToFixed(query[t].longitude) \div CellSize >>

(***************************************************************************)
(* Properties of the download, merge and de-duplication stages             *)
(* (specification SpecBuild).                                              *)
(***************************************************************************)
\* The rows of the place file of country x, if its download succeeded.
RowsOf(x) ==
    IF source.places[x].ok
    THEN { source.places[x].rows[i] : i \in DOMAIN source.places[x].rows }
    ELSE {}

\* C14: a coordinate of the valid range, converted to fixed point as
\* download_country does and decoded as CompactPlace::location does, differs
\* from the parsed value by at most one fixed-point unit (0.00001 degrees).
C14_FixedPointRoundTrip ==
    \A i \in DOMAIN temp_places :
        \E r \in RowsOf(temp_places[i].country_code) :
            LET back == location(temp_places[i])
                dlat == back.latitude - r.latitude
                dlon == back.longitude - r.longitude
            IN  /\ r.name = temp_places[i].city
                /\ dlat <= HalfUnits /\ -dlat <= HalfUnits
                /\ dlon <= HalfUnits /\ -dlon <= HalfUnits

\* C14 witness: the collection holds a place whose latitude lay half a unit
\* below zero and decodes to another value, and one at the edge of the
\* valid range.
C14_Witness ==
    /\ \E i \in DOMAIN temp_places :
           /\ temp_places[i].city = sKehl
           /\ location(temp_places[i]).latitude # RowKehl.latitude
    /\ \E i \in DOMAIN temp_places :
           /\ temp_places[i].city = sIle
           /\ temp_places[i].lon = -180 * CoordScale

\* The places of a sequence, as a set.
Range(ps) == { ps[i] : i \in DOMAIN ps }

\* C15: of the records of one de-duplication cell exactly one survives
\* deduplicate_places; a record is dropped when another record of its cell
\* has the longer city name, or a city name of the same length and a postal
\* code where it has none.  So of two records alone in a cell exactly one
\* survives, the one with the longer name or, at equal length, the one with
\* the postal code.
C15_RicherRecordSurvives ==
    [][(stage = "merged" /\ stage' = "deduplicated") =>
          \A i, j \in DOMAIN temp_places :
              (i # j /\ DedupKey(temp_places[i]) = DedupKey(temp_places[j])) =>
                  LET a == temp_places[i]
                      b == temp_places[j]
                  IN  /\ Cardinality({ k \in DOMAIN temp_places' :
                             DedupKey(temp_places'[k]) = DedupKey(a) }) = 1
                      /\ \E k \in DOMAIN temp_places' :
                             /\ DedupKey(temp_places'[k]) = DedupKey(a)
                             /\ temp_places'[k] \in Range(temp_places)
                      /\ Len(a.city) > Len(b.city)
                             => b \notin Range(temp_places')
                      /\ ( /\ Len(a.city) = Len(b.city)
                           /\ a.postal_code # sEmpty
                           /\ b.postal_code = sEmpty )
                             => b \notin Range(temp_places')
    ]_vars

\* C15 witness: Orly and Kehl, of equal name length, shared a cell, only
\* Orly had received a postal code, and Orly is the survivor.
C15_Witness ==
    /\ stage = "deduplicated"
    /\ RowKehl \in RowsOf(sDE)
    /\ RowsOf(sFR) = { RowOrly }
    /\ Len(temp_places) = 1
    /\ temp_places[1].city = sOrly
    /\ temp_places[1].postal_code # sEmpty
    /\ \A k \in DOMAIN codes : codes[k].country # sDE

\* The collection download_places returns when the threads extend it in the
\* order o: the places of the units that succeeded, unit after unit.
RECURSIVE CollectedIn(_, _)
CollectedIn(o, k) ==
    IF k > Len(o) THEN << >>
    ELSE (IF download_country(o[k], source.places[o[k]]).ok
          THEN download_country(o[k], source.places[o[k]]).val
          ELSE << >>) \o CollectedIn(o, k + 1)

\* C16: the set of records that survive de-duplication is the same for
\* every order in which the country threads insert into the collection.
C16_InsertionOrderIrrelevant ==
    stage = "deduplicated" =>
        \A o \in { q \in [1..Cardinality(Countries) -> Countries] :
                    \A i, j \in DOMAIN q : i # j => q[i] # q[j] } :
            Range(deduplicate_places(
                      merge_postal_codes(CollectedIn(o, 1), codes)))
                = Range(temp_places)

\* The postal records merge_postal_codes can attach to place p: those of
\* p's country whose cell is p's cell or one of its eight neighbours.
PostalCandidates(p) ==
    { k \in DOMAIN codes :
        /\ codes[k].country = p.country_code
        /\ \E dlat, dlon \in { -1, 0, 1 } :
               CellOf(codes[k].lat, codes[k].lon)
                   = << CellOf(p.lat, p.lon)[1] + dlat,
                        CellOf(p.lat, p.lon)[2] + dlon >> }

\* Candidate k1 is met before candidate k2 when the scan for place p goes
\* through the cells row by row and through a cell's records in the order
\* they were pushed.
MetBefore(k1, k2) ==
    LET c1 == CellOf(codes[k1].lat, codes[k1].lon)
        c2 == CellOf(codes[k2].lat, codes[k2].lon)
    IN  \/ c1[1] < c2[1]
        \/ c1[1] = c2[1] /\ c1[2] < c2[2]
        \/ c1 = c2 /\ k1 < k2

MergeStep == stage = "merge" /\ stage' = "merged"

\* C17: after the merge every place with a candidate carries the postal
\* code of the candidate at the smallest squared planar distance, the one
\* met first when several are equally near; no record of another country
\* or outside the nine cells is chosen.
C17_NearestPostalAttached ==
    [][MergeStep =>
          /\ Len(temp_places') = Len(temp_places)
          /\ \A i \in DOMAIN temp_places :
                 LET p == temp_places[i]
                 IN  PostalCandidates(p) # {} =>
                         \E k \in PostalCandidates(p) :
                             /\ temp_places'[i].postal_code = codes[k].code
                             /\ \A k2 \in PostalCandidates(p) \ { k } :
                                    \/ PlanarSq(p, codes[k])
                                           < PlanarSq(p, codes[k2])
                                    \/ /\ PlanarSq(p, codes[k])
                                              = PlanarSq(p, codes[k2])
                                       /\ MetBefore(k, k2)
    ]_vars

\* C17 witness: Paris had two equally near candidates, the one pushed
\* later lying in the cell scanned earlier, and a nearer record of DE; it
\* carries the code of the candidate met first.
C17_Witness ==
    /\ stage = "merged"
    /\ \E i \in DOMAIN temp_places :
           temp_places[i].city = sParis /\ temp_places[i].postal_code = s94
    /\ \E k1, k2, k3 \in DOMAIN codes :
           /\ k1 < k2
           /\ codes[k1].code = s91
           /\ codes[k2].code = s94
           /\ codes[k3].country = sDE

\* C18: when the merge finds a match for a place, the place's district
\* becomes the matched record's district if it was empty and stays as it
\* was otherwise.
C18_DistrictOnlyWhenEmpty ==
    [][MergeStep =>
          \A i \in DOMAIN temp_places :
              LET p == temp_places[i]
              IN  PostalCandidates(p) # {} =>
                      \E k \in PostalCandidates(p) :
                          /\ temp_places'[i].postal_code = codes[k].code
                          /\ temp_places'[i].district
                                 = IF p.district = sEmpty
                                   THEN codes[k].district
                                   ELSE p.district
    ]_vars

\* C18 witness: Paris, without a district, and Orly, with one, were both
\* matched with the same postal record, whose district is a third value.
C18_Witness ==
    /\ stage = "merged"
    /\ \E i, j \in DOMAIN temp_places :
           /\ temp_places[i].city = sParis
           /\ temp_places[i].postal_code = s75
           /\ temp_places[i].district = sIDF
           /\ temp_places[j].city = sOrly
           /\ temp_places[j].postal_code = s75
           /\ temp_places[j].district = sOrly

\* C19: a place without a postal record of its country in the nine cells
\* around it comes out of the merge as it went in, and the merge completes.
C19_NoCandidateNoChange ==
    [][(stage = "merge" /\ stage' # stage) =>
          /\ stage' = "merged"
          /\ \A i \in DOMAIN temp_places :
                 PostalCandidates(temp_places[i]) = {} =>
                     /\ i \in DOMAIN temp_places'
                     /\ temp_places'[i] = temp_places[i]
    ]_vars

\* C19 witness: the postal download of DE had failed while FR records were
\* at hand next to Kehl, and far from the third FR place; both places still
\* have no postal code.
C19_Witness ==
    /\ stage = "merged"
    /\ ~source.postal[sDE].ok
    /\ \E k \in DOMAIN codes : codes[k].code = s75
    /\ \E i, j \in DOMAIN temp_places :
           /\ temp_places[i].city = sKehl
           /\ temp_places[i].postal_code = sEmpty
           /\ temp_places[j].city = sIle
           /\ temp_places[j].postal_code = sEmpty

\* What the place unit and the postal unit of country x return, a failed
\* unit counting as nothing.
UnitPlaces(x) ==
    IF download_country(x, source.places[x]).ok
    THEN download_country(x, source.places[x]).val
    ELSE << >>

UnitCodes(x) ==
    IF download_postal_codes_for_country(source.postal[x]).ok
    THEN download_postal_codes_for_country(source.postal[x]).val
    ELSE << >>

C21_BuiltFromWinner ==
    \A t \in Threads :
        (pc[t] = "done" /\ result[t].some) =>
            LET rec == GEOCODER.db.places[found[t].val + 1]
                out_place == result[t].val
            IN  /\ found[t].some
                /\ \A k \in 1..Len(FieldOrder) :
                       out_place[FieldOrder[k]]
                           = GEOCODER.db.strings[rec[FieldOrder[k]] + 1]
                /\ out_place.latitude * CoordScale = rec.lat * DegScale
                /\ out_place.longitude * CoordScale = rec.lon * DegScale

\* C21 witness: a lookup returned a place whose coordinates are not the
\* query's and whose latitude and longitude differ, out of a database of
\* two records.
C21_Witness ==
    \E t \in Threads :
        /\ pc[t] = "done"
        /\ result[t].some
        /\ Len(GEOCODER.db.places) = 2
        /\ result[t].val.latitude # query[t].latitude
        /\ result[t].val.latitude # result[t].val.longitude

\* C22: in every database that was built, written and loaded, every record
\* ID of every cell's list is a position of the record array and every
\* string index of every record is a position of the string table, and no
\* lookup fails on an index out of range.
C22_IndicesInRange ==
    /\ GEOCODER.state = "complete" =>
           LET db == GEOCODER.db
           IN  /\ \A c \in DOMAIN db.grid :
                      \A k \in DOMAIN db.grid[c] :
                          db.grid[c][k] \in 0..(Len(db.places) - 1)
               /\ \A i \in DOMAIN db.places :
                      \A k \in 1..Len(FieldOrder) :
                          db.places[i][FieldOrder[k]]
                              \in 0..(Len(db.strings) - 1)
    /\ \A t \in Threads :
           pc[t] = "panicked" => failure[t].msg # "index out of bounds"

\* C22 witness: a lookup went through a loaded database of two records in
\* two cells and returned one of them.
C22_Witness ==
    /\ GEOCODER.state = "complete"
    /\ Len(GEOCODER.db.places) = 2
    /\ Cardinality(DOMAIN GEOCODER.db.grid) = 2
    /\ \E t \in Threads : pc[t] = "done" /\ result[t].some

\* C23 (as stated): the cell key lookup computes for a query point is the
\* build-time cell key of the coordinates rounded to the nearest fixed-point
\* integer.
C23_RoundedCellKey ==
    \A t \in Threads :
        InLookup(t) =>
            grid_key(query[t])
                = CellOf(RoundHalf(query[t].latitude),
                         RoundHalf(query[t].longitude))

\* n is x fixed-point units (x in half units) with the fraction dropped:
\* the integer of x's sign nearest to x that is no farther from zero.
IsTruncation(n, x) ==
    IF x >= 0
    THEN n >= 0 /\ n * HalfUnits <= x /\ x < (n + 1) * HalfUnits
    ELSE n <= 0 /\ n * HalfUnits >= x /\ x > (n - 1) * HalfUnits

\* The integers within one unit of x fixed-point units (x in half units).
Near(x) == ((x \div HalfUnits) - 1)..((x \div HalfUnits) + 1)

\* C23 (amended): the cell key lookup computes for a query point is the
\* build-time cell key of the coordinates converted to fixed point with the
\* fraction dropped (toward zero), the conversion the builder applies to
\* the coordinates it stores.
C23_TruncatedCellKey ==
    \A t \in Threads :
        InLookup(t) =>
            \E lat \in Near(query[t].latitude), lon \in Near(query[t].longitude) :
                /\ IsTruncation(lat, query[t].latitude)
                /\ IsTruncation(lon, query[t].longitude)
                /\ grid_key(query[t]) = CellOf(lat, lon)

\* C23 witness: a lookup has finished for a query whose latitude is half a
\* unit beyond a fixed-point integer, where rounding and truncation differ.
C23_Witness ==
    \E t \in Threads :
        /\ pc[t] = "done"
        /\ query[t].latitude % HalfUnits = 1
        /\ query[t].latitude < 0

(***************************************************************************)
(* Further properties of the de-duplication (specification SpecBuild).     *)
(***************************************************************************)
\* (floor(lat / 1000), floor(lon / 1000)) of a record.
FloorCell(p) == << p.lat \div DedupCellSize, p.lon \div DedupCellSize >>

\* C24: the de-duplication cell of a record is (floor(lat / 1000),
\* floor(lon / 1000)), for negative coordinates too: a record is dropped
\* only when a record of its own floor cell survives, so records of
\* different floor cells both survive, and of a floor cell one survives.
C24_FloorDedupCell ==
    [][(stage = "merged" /\ stage' = "deduplicated") =>
          /\ \A i \in DOMAIN temp_places :
                 \E k \in DOMAIN temp_places' :
                     FloorCell(temp_places'[k]) = FloorCell(temp_places[i])
          /\ \A j, k \in DOMAIN temp_places' :
                 FloorCell(temp_places'[j]) = FloorCell(temp_places'[k])
                     => j = k
    ]_vars

(***************************************************************************)
(* Further properties of the query (specification Spec).                   *)
(***************************************************************************)
\* The places of the block around `key` where a record ID is listed: the
\* cell and the position in the cell's list.
BlockSlots(db, key) ==
    { << c, k >> \in (DOMAIN db.grid) \X (1..MaxPlaces + 1) :
        /\ c[1] - key[1] \in -1..1
        /\ c[2] - key[2] \in -1..1
        /\ k \in DOMAIN db.grid[c] }

\* Slot a is visited before slot b: latitude offset first, then longitude
\* offset, then the position in the cell's list.
VisitedBefore(a, b) ==
    \/ a[1][1] < b[1][1]
    \/ a[1][1] = b[1][1] /\ a[1][2] < b[1][2]
    \/ a[1] = b[1] /\ a[2] < b[2]

\* C25: when several candidates are at the minimum distance, lookup returns
\* the one met first when the cells are visited with the latitude offset
\* -1, 0, 1 outermost and the longitude offset -1, 0, 1 inside it, and a
\* cell's records in the order of its ID list.
C25_FirstOfTies ==
    \A t \in Threads :
        (pc[t] = "done" /\ found[t].some) =>
            LET db == GEOCODER.db
                slots == BlockSlots(db, grid_key(query[t]))
            IN  \E a \in slots :
                    /\ db.grid[a[1]][a[2]] = found[t].val
                    /\ \A b \in slots :
                           DistanceOf(db, query[t], db.grid[b[1]][b[2]])
                               = DistanceOf(db, query[t], found[t].val)
                               => ~VisitedBefore(b, a)

\* C25 witness: two records in two different cells were equally far from
\* the query, and lookup returned the one with the higher ID.
C25_Witness ==
    \E t \in Threads :
        /\ pc[t] = "done"
        /\ found[t].some
        /\ \E id \in BlockIds(GEOCODER.db, grid_key(query[t])) :
               /\ id < found[t].val
               /\ DistanceOf(GEOCODER.db, query[t], id)
                      = DistanceOf(GEOCODER.db, query[t], found[t].val)
               /\ CellOf(GEOCODER.db.places[id + 1].lat,
                         GEOCODER.db.places[id + 1].lon)
                      # CellOf(GEOCODER.db.places[found[t].val + 1].lat,
                               GEOCODER.db.places[found[t].val + 1].lon)

(***************************************************************************)
(* Further properties of the downloads (specification SpecBuild).          *)
(***************************************************************************)
\* The orders in which the country threads can reach their critical section.
UnitOrders ==
    { q \in [1..Cardinality(Countries) -> Countries] :
        \A i, j \in DOMAIN q : i # j => q[i] # q[j] }

\* The collection download_postal_codes returns when the threads extend it
\* in the order o.
RECURSIVE CodesCollectedIn(_, _)
CodesCollectedIn(o, k) ==
    IF k > Len(o) THEN << >>
    ELSE UnitCodes(o[k]) \o CodesCollectedIn(o, k + 1)

\* Exactly the thread of country x went from holding its result to having
\* finished.
Finishes(x) ==
    /\ worker[x] = "fetched"
    /\ worker' = [worker EXCEPT ![x] = "done"]

\* C26: under every interleaving of the country threads a shared collection
\* changes only by one thread appending its whole result in one step, after
\* which that thread has finished; once a download phase is over the
\* collection is the results of the units that succeeded, whole and one
\* after the other in some order of the units; and the merge and the
\* de-duplication run only when every thread has finished.
C26_WholeResultsOnce ==
    /\ [][ /\ temp_places' # temp_places /\ stage = "download_places" =>
                \E x \in Countries :
                    /\ Finishes(x)
                    /\ temp_places' = temp_places \o UnitPlaces(x)
           /\ codes' # codes =>
                \E x \in Countries :
                    /\ Finishes(x)
                    /\ codes' = codes \o UnitCodes(x)
           /\ stage' \in { "merge", "merged", "deduplicated" } =>
                \A x \in Countries : worker[x] = "done" /\ worker'[x] = "done"
         ]_vars
    /\ [](stage \in { "download_postal", "merge" } =>
              \E o \in UnitOrders : temp_places = CollectedIn(o, 1))
    /\ [](stage \in { "merge", "merged", "deduplicated" } =>
              \E o \in UnitOrders : codes = CodesCollectedIn(o, 1))

\* C26 witness: FR's place unit returned two records and DE's one, DE's
\* thread appended its result before FR's, and the postal units, of which
\* DE's came first as well, have been appended too.
C26_Witness ==
    /\ stage = "merge"
    /\ Len(UnitPlaces(sFR)) = 2
    /\ Len(UnitPlaces(sDE)) = 1
    /\ Len(temp_places) = 3
    /\ temp_places[1].country_code = sDE
    /\ Len(codes) = 3
    /\ codes[1].country = sDE

(***************************************************************************)
(* The order of the build stages (specification SpecPipeline).             *)
(***************************************************************************)
\* The stages of Builder::build in the order of its statements.
StageOrder ==
    << "download_places", "download_postal", "merge", "merged",
       "deduplicated", "interned", "indexed", "written" >>

\* Compact record c is temporary record p with its strings interned.
Interned(c, p) ==
    /\ \A k \in 1..Len(FieldOrder) :
           /\ c[FieldOrder[k]] \in 0..(Len(strings) - 1)
           /\ strings[c[FieldOrder[k]] + 1] = p[FieldOrder[k]]
    /\ c.lat = p.lat
    /\ c.lon = p.lon

\* C27: the build stages run in the fixed order postal merge,
\* de-duplication, interning, grid construction, serialization; the records
\* that are interned are the de-duplication of the collection with the
\* postal codes already attached; the IDs the grid stores are positions of
\* the record array made of them, each position listed once under its
\* record's cell; and that array is the one the written file holds.
C27_StagesInOrder ==
    /\ [][stage' # stage =>
              \E k \in 1..(Len(StageOrder) - 1) :
                  stage = StageOrder[k] /\ stage' = StageOrder[k + 1]]_vars
    /\ [](stage \in { "deduplicated", "interned", "indexed", "written" } =>
              \E o \in UnitOrders :
                  input = deduplicate_places(
                              merge_postal_codes(CollectedIn(o, 1), codes)))
    /\ [](stage \in { "interned", "indexed", "written" } =>
              /\ Len(places) = Len(input)
              /\ \A i \in DOMAIN places : Interned(places[i], input[i]))
    /\ [](stage \in { "indexed", "written" } =>
              \A i \in DOMAIN places :
                  /\ CellOf(places[i].lat, places[i].lon) \in DOMAIN grid
                  /\ \A c \in DOMAIN grid :
                         Cardinality({ k \in DOMAIN grid[c] :
                                         grid[c][k] = i - 1 })
                             = IF c = CellOf(places[i].lat, places[i].lon)
                               THEN 1 ELSE 0)
    /\ [](stage \in { "indexed", "written" } =>
              \A c \in DOMAIN grid :
                  \A k \in DOMAIN grid[c] :
                      grid[c][k] \in 0..(Len(places) - 1))
    /\ [](stage = "written" =>
              /\ load_database(out).ok
              /\ load_database(out).val.places = places
              /\ load_database(out).val.strings = strings)

\* C27 witness: DE's file holds Kehl and FR's file Orly, of equal name
\* length and in one cell; only Orly was given a postal code, Orly is the
\* survivor, and the file with Orly as record 0 has been written.
C27_Witness ==
    /\ stage = "written"
    /\ Len(CollectedIn(<< sDE, sFR >>, 1)) = 2
    /\ CollectedIn(<< sDE, sFR >>, 1)[1].city = sKehl
    /\ CollectedIn(<< sDE, sFR >>, 1)[2].city = sOrly
    /\ Len(codes) > 0
    /\ Len(input) = 1
    /\ input[1].city = sOrly
    /\ input[1].postal_code # sEmpty
    /\ Len(out) > 0

(***************************************************************************)
(* Properties of the length encoding (specification SpecVarint).           *)
(***************************************************************************)
\* The number whose seven-bit groups, least significant first, are the low
\* seven bits of bytes i.. of b.
RECURSIVE GroupsValue(_, _)
GroupsValue(b, i) ==
    IF i > Len(b) THEN 0
    ELSE (b[i] % 128) + 128 * GroupsValue(b, i + 1)

\* The bytes of `out` up to the first one whose high bit is clear.
RECURSIVE VarintPrefix(_, _)
VarintPrefix(b, i) ==
    IF i > Len(b) THEN b
    ELSE IF b[i] < 128 THEN SubSeq(b, 1, i)
    ELSE VarintPrefix(b, i + 1)

\* C28: a length is written as seven-bit groups, least significant first,
\* with the high bit set on every byte but the last; read_varint applied to
\* what write_varint wrote returns the length and stops right behind the
\* bytes written, whatever follows them.
C28_VarintRoundTrip ==
    /\ stage \in { "length_written", "length_read" } =>
           LET b == VarintPrefix(out, 1)
           IN  /\ Len(b) >= 1
               /\ b[Len(b)] < 128
               /\ \A i \in 1..(Len(b) - 1) : b[i] >= 128
               /\ GroupsValue(b, 1) = input
               /\ out \in { b \o tail : tail \in Tails }
    /\ stage = "length_read" =>
           /\ loaded.ok
           /\ loaded.val = input
           /\ loaded.pos = Len(VarintPrefix(out, 1))

\* C28 witness: a length of three groups was written, string bytes with the
\* high bit set follow it, and it has been read back.
C28_Witness ==
    /\ stage = "length_read"
    /\ input >= 16384
    /\ input < 2097152
    /\ Len(out) = 5
    /\ out[4] = 255

(***************************************************************************)
(* The survivors of the de-duplication (specification SpecBuild).          *)
(***************************************************************************)
\* C29: after deduplicate_places no two survivors have the same
\* de-duplication key, every key some input record has is the key of
\* exactly one survivor, and every survivor is one of the input records,
\* all fields as they were; the survivors are what is interned next.
C29_OneSurvivorPerCell ==
    [][(stage = "merged" /\ stage' = "deduplicated") =>
          /\ \A j, k \in DOMAIN temp_places' :
                 DedupKey(temp_places'[j]) = DedupKey(temp_places'[k])
                     => j = k
          /\ { DedupKey(temp_places[i]) : i \in DOMAIN temp_places }
                 = { DedupKey(temp_places'[k]) : k \in DOMAIN temp_places' }
          /\ \A k \in DOMAIN temp_places' :
                 \E i \in DOMAIN temp_places : temp_places'[k] = temp_places[i]
          /\ input' = temp_places'
    ]_vars

\* C29 witness: three records went in, two of them with the same key and
\* not next to each other in the collection, and two records came out.
C29_Witness ==
    /\ stage = "deduplicated"
    /\ Len(temp_places) = 2
    /\ \E o \in UnitOrders :
           LET before == merge_postal_codes(CollectedIn(o, 1), codes)
           IN  /\ temp_places = deduplicate_places(before)
               /\ Len(before) = 3
               /\ DedupKey(before[1]) = DedupKey(before[3])
               /\ DedupKey(before[1]) # DedupKey(before[2])

(***************************************************************************)
(* Reach of the nine-cell scan (specification Spec).                       *)
(***************************************************************************)
Dist(a, b) == IF a >= b THEN a - b ELSE b - a

\* The records whose fixed-point latitude and longitude are each within one
\* cell size of the fixed-point coordinates of query point q.
WithinOneCell(db, q) ==
    { id \in 0..(Len(db.places) - 1) :
        /\ Dist(db.places[id + 1].lat, ToFixed(q.latitude)) <= CellSize
        /\ Dist(db.places[id + 1].lon, ToFixed(q.longitude)) <= CellSize }

\* C30: every record whose fixed-point latitude and longitude each differ
\* from the query's by at most 10,000 units is a candidate of the lookup,
\* on either side of zero: it is listed in the block that is scanned, the
\* lookup returns a record, and the record returned is no farther from the
\* query than it.
C30_NeighboursAreCandidates ==
    \A t \in Threads :
        pc[t] = "done" =>
            \A id \in WithinOneCell(GEOCODER.db, query[t]) :
                /\ id \in BlockIds(GEOCODER.db, grid_key(query[t]))
                /\ found[t].some
                /\ result[t].some
                /\ DistanceOf(GEOCODER.db, query[t], found[t].val)
                       <= DistanceOf(GEOCODER.db, query[t], id)

\* C30 witness: the only record lies a full 10,000 units from the query
\* along the longitude, in another cell, at negative longitude, and the
\* lookup returned it.
C30_Witness ==
    \E t \in Threads :
        /\ pc[t] = "done"
        /\ result[t].some
        /\ Len(GEOCODER.db.places) = 1
        /\ WithinOneCell(GEOCODER.db, query[t]) = { 0 }
        /\ CellOf(GEOCODER.db.places[1].lat, GEOCODER.db.places[1].lon)
               # grid_key(query[t])
        /\ GEOCODER.db.places[1].lon = -CellSize
        /\ ToFixed(query[t].longitude) = 0

=============================================================================
